---- MODULE Spec2Model ----
(***************************************************************************)
(* State-machine model of the fm file manager: the pane stack kept by      *)
(* AppModel (src/lib.rs), the preview resolver FilePreviewModel            *)
(* (src/component/file_preview.rs), the trash, restore and move tasks of a *)
(* Directory pane (src/component/directory_list.rs, src/ops.rs), the mount *)
(* dialog (src/component/mount.rs) and the rename popover of a list item.  *)
(*                                                                         *)
(* Components talk through message channels: a Directory pane or the       *)
(* places sidebar sends an AppMsg, which waits in AppModel's input channel *)
(* until update_with_view takes it.  The channel is a variable of the      *)
(* model, so a message can be handled in a state other than the one it was *)
(* sent in.                                                                *)
(***************************************************************************)
EXTENDS Integers, Sequences, FiniteSets, TLC

VARIABLES
    root,          \* AppModel.root
    directories,   \* AppModel.directories, the pane stack (front = leftmost)
    inbox,         \* AppMsg values sent to AppModel and not yet handled
    panicked,      \* TRUE once a handler has panicked (expect / unwrap)
    handled,       \* history: the last AppMsg handled and what handling it did
    fp_inbox,      \* FilePreviewMsg values sent to FilePreviewModel, not yet handled
    resolutions,   \* the query futures spawned by FilePreviewModel, oldest first
    abort_preview, \* FilePreviewModel.abort_preview: 0 for None, else a resolution
    info,          \* FilePreviewModel.info
    preview,       \* FilePreviewModel.preview
    file_name_text, \* FilePreviewModel.file_name_text, as a sequence of words
    file_type_text, \* FilePreviewModel.file_type_text, as a sequence of words
    fp_handled,    \* history: the last FilePreviewMsg handled
    payload,       \* what the FilePreview value in preview holds
    textures,      \* the texture loads spawned and not yet handled
    picture,       \* the file whose texture is the paintable of the picture
    tx_handled,    \* history: the last TextureLoaded handled
    disk,          \* what the disk holds for the plain-text entry /home/notes
    ID,            \* ops::ID, the counter of transfer ids
    trash,         \* the task spawned by TrashSelection
    restore,       \* the futures of the task spawned by RestoreSelectionFromTrash
    restoring,     \* TRUE once RestoreSelectionFromTrash has been handled
    sent,          \* the AppMsg values the tasks have sent, not yet handled
    progress,      \* AppModel.progress, the active operations
    crashed,       \* TRUE once a task has panicked
    on_disk,       \* the regular files on disk: location |-> content
    in_trash,      \* the items of trash:///, each with its trash::orig-path
    store_handled, \* history: the last drop, trash or restore and what it did
    mnt_inbox,     \* MountMsg values sent to the Mount dialog, not yet handled
    mnt_visible,   \* Mount.visible
    abort_handle,  \* Mount.abort_handle: 0 for None, else a mount task
    mounts,        \* the tasks spawned by the Accept arm, oldest first
    mnt_handled,   \* history: the last MountMsg handled
    names,         \* the names of the entries of the directory a pane lists
    handlers,      \* the activate handlers connected to the rename entry
    previous_handler_id, \* previous_handler_id: 0 for None, else a handler id
    signal_ids,    \* the number of signal handler ids glib has handed out
    entry_text,    \* the text of the rename entry
    popover,       \* TRUE while the rename popover is popped up
    rename_handled \* history: the last Rename action or activation

app_vars == <<root, directories, inbox, panicked, handled>>
viewer_vars == <<textures, picture, tx_handled>>
fp_vars == <<fp_inbox, resolutions, abort_preview, info, preview,
             file_name_text, file_type_text, fp_handled, disk, payload,
             viewer_vars>>
ops_vars == <<ID, trash, restore, restoring, sent, progress, crashed>>
store_vars == <<on_disk, in_trash, store_handled>>
mount_vars == <<mnt_inbox, mnt_visible, abort_handle, mounts, mnt_handled>>
rename_vars == <<names, handlers, previous_handler_id, signal_ids, entry_text,
                 popover, rename_handled>>
ui_vars == <<mount_vars, rename_vars>>
vars == <<app_vars, fp_vars, ops_vars, store_vars, ui_vars>>

---------------------------------------------------------------------------
(* Bounds *)

\* AppMsg values that may wait in AppModel's input channel at once.
MaxInbox == 2

\* FilePreviewMsg values that may wait in FilePreviewModel's input channel.
MaxFpInbox == 2

\* Preview resolutions started in one run.
MaxResolutions == 3

\* Entries selected for one trash or restore batch.
MaxBatch == 2

\* AppMsg values of running moves that may wait in AppModel's input channel.
MaxPending == 2

\* MountMsg values that may wait in the Mount dialog's input channel.
MaxMntInbox == 2

\* Mount operations started in one run.
MaxMounts == 2

\* Rename actions activated on one list item view in one run.
MaxRenames == 3

---------------------------------------------------------------------------
(* Locations (gio::File): a URI scheme and the path components. *)

Loc(s, p) == [scheme |-> s, path |-> p]

\* The directories of the modelled file systems.
Directories ==
    { Loc("file", <<>>),
      Loc("file", <<"home">>),
      Loc("file", <<"home", "alice">>),
      Loc("file", <<"home", "alice", "bob">>),
      Loc("file", <<"home", "bob">>),
      Loc("sftp", <<>>),
      Loc("sftp", <<"pub">>) }

\* The regular files of the modelled file systems.
RegularFiles ==
    { Loc("file", <<"home", "notes">>),
      Loc("file", <<"home", "bob", "report">>),
      Loc("sftp", <<"pub", "data">>),
      Loc("sftp", <<"photo">>),
      Loc("sftp", <<"logo">>) }

\* Directories the program can be started in (main.rs canonicalizes a local
\* path; AppModel::init takes the parent of a non-directory).
StartDirs == { d \in Directories : d.scheme = "file" }

\* Args.file once main has canonicalized it (main.rs:17-42): an existing
\* local path, of a directory or of a regular file.
StartPaths == StartDirs \cup { f \in RegularFiles : f.scheme = "file" }

\* Places offered by the sidebar.
Places ==
    { Loc("file", <<"home">>),
      Loc("file", <<"home", "bob">>),
      Loc("sftp", <<"pub">>) }

\* gio::File::query_file_type
query_file_type(f) ==
    IF f \in Directories THEN "Directory"
    ELSE IF f \in RegularFiles THEN "Regular"
    ELSE "Unknown"

\* gio::File::child
child(f, name) == Loc(f.scheme, Append(f.path, name))

\* gio::File::basename
basename(f) == f.path[Len(f.path)]

\* gio::File::parent, with hasParent FALSE for None
has_parent(f) == f.path # <<>>
parent(f) == Loc(f.scheme, SubSeq(f.path, 1, Len(f.path) - 1))

\* The entries a pane listing dir shows (gtk::DirectoryList of dir): the
\* entries on disk.  The file systems do not change while the program runs.
Children(dir) ==
    { f \in Directories \cup RegularFiles :
        has_parent(f) /\ parent(f) = dir }

\* What the disk holds for the plain-text entry /home/notes: whether it can
\* be opened and read, its length in bytes, and the offset (from 1) of its
\* first NUL byte, 0 when it has none.
Disk(readable, size, nul_at) ==
    [readable |-> readable, size |-> size, nul_at |-> nul_at]

Disks ==
    { Disk(TRUE, 10, 0),
      Disk(TRUE, 5000, 4096),
      Disk(TRUE, 5000, 4097),
      Disk(FALSE, 10, 0) }

\* glib::Uri::split(...).path: the path of the URI, the scheme is dropped.
uri_path(f) == f.path

---------------------------------------------------------------------------
(* Path difference: pathdiff::diff_paths(path, base), called at lib.rs:328 *)
(* with the two URI paths.  A path is its sequence of components; both are *)
(* absolute, so the leading RootDir components are equal and left out.     *)
(* The result is None or Some(components), ".." standing for ParentDir.    *)

None == [some |-> FALSE, comps |-> <<>>]
Some(c) == [some |-> TRUE, comps |-> c]

ParentDirs(n) == [i \in 1..n |-> ".."]

RECURSIVE diff_loop(_, _, _)
diff_loop(ita, itb, comps) ==
    IF ita = <<>> /\ itb = <<>> THEN Some(comps)
    ELSE IF itb = <<>> THEN Some(comps \o ita)
    ELSE IF ita = <<>> THEN diff_loop(<<>>, Tail(itb), Append(comps, ".."))
    ELSE IF comps = <<>> /\ Head(ita) = Head(itb)
        THEN diff_loop(Tail(ita), Tail(itb), comps)
    ELSE IF Head(itb) = "." THEN diff_loop(Tail(ita), Tail(itb), Append(comps, Head(ita)))
    ELSE IF Head(itb) = ".." THEN None
    ELSE Some(comps \o ParentDirs(Len(itb)) \o ita)

\* Variant: the common prefix of the two paths is not skipped.
diff_paths_from_root(path, base) == Some(ParentDirs(Len(base)) \o path)

diff_paths(path, base) == diff_loop(path, base, <<>>)

---------------------------------------------------------------------------
(* AppMsg and FilePreviewMsg values *)

NewRoot(f) == [type |-> "NewRoot", root |-> f]
NewSelectionNone == [type |-> "NewSelectionNone"]
\* Selection::Files(FileSelection {parent, files}); files is kept in listing
\* order by the pane, so the set of files stands for the vector.
NewSelectionFiles(p, fs) == [type |-> "NewSelectionFiles", parent |-> p, files |-> fs]
NoMsg == [type |-> "NoMsg"]
\* The launch of the program with Args.file, the event before every AppMsg;
\* selected is the set of entries selected in the first pane when
\* AppModel::init returns.
Launch(f, selected) == [type |-> "Launch", file |-> f, selected |-> selected]

\* AppMsg values of the tasks.  by and entry record the task that sent the
\* message; no handler reads them.
AppError(by, entry) == [type |-> "Error", by |-> by, entry |-> entry]
Toast(text) == [type |-> "Toast", text |-> text]
TransferNew(id, entry) ==
    [type |-> "TransferNew", id |-> id,
     description |-> <<"Moving", entry, "to", "destination">>, entry |-> entry]
TransferProgress(id, current, total, entry) ==
    [type |-> "TransferProgress", id |-> id, current |-> current,
     total |-> total, entry |-> entry]

Hide == [type |-> "Hide"]
PreviewNewSelection(p, fs) == [type |-> "NewSelection", parent |-> p, files |-> fs]
ChangePdfPage(change) == [type |-> "ChangePdfPage", change |-> change]

\* No gio::File.
NoFile == Loc("none", <<>>)

\* A FilePreview value that holds neither a file nor a document.
NoPayload == [file |-> NoFile, n_pages |-> 0, page_index |-> 0]

\* No TextureLoaded has been handled.
NoTexture == [file |-> NoFile, ok |-> FALSE, displayed |-> FALSE,
              picture_before |-> NoFile, preview |-> "None",
              payload |-> NoPayload]

---------------------------------------------------------------------------
(* FactoryVecDeque operations on the pane stack *)

\* Variant: the pop is left out.
pop_back_skipped(dirs) == dirs

\* Variant: a pop removes two panes.
pop_back_twice(dirs) ==
    IF Len(dirs) < 2 THEN <<>> ELSE SubSeq(dirs, 1, Len(dirs) - 2)

pop_back(dirs) ==
    IF dirs = <<>> THEN dirs ELSE SubSeq(dirs, 1, Len(dirs) - 1)

\* Variant: a push adds the pane twice.
push_back_twice(dirs, f) == Append(Append(dirs, f), f)

push_back(dirs, f) == Append(dirs, f)

\* Variant: the stack is not cleared.
clear_skipped(dirs) == dirs

clear(dirs) == <<>>

---------------------------------------------------------------------------
(* AppModel::update_with_view, one operator per match arm.  Each returns   *)
(* the new pane stack and root, the messages emitted to the file preview,  *)
(* whether the handler panicked, and the pops and pushes it made in order. *)

Outcome(dirs, rt, emitted, panic, ops) ==
    [dirs |-> dirs, root |-> rt, emitted |-> emitted, panic |-> panic, ops |-> ops]

\* The selection's target: lib.rs:310-314.
Target(sel) ==
    IF Cardinality(sel.files) = 1
        THEN CHOOSE f \in sel.files : TRUE
        ELSE sel.parent

\* The loop over diff.components(): lib.rs:340-359.
RECURSIVE walk(_, _, _, _)
walk(comps, dirs, last_dir, ops) ==
    IF comps = <<>> THEN [dirs |-> dirs, panic |-> FALSE, ops |-> ops]
    ELSE IF Head(comps) = ".."
        THEN IF has_parent(last_dir)
                THEN walk(Tail(comps), pop_back(dirs), parent(last_dir),
                          Append(ops, "pop"))
                ELSE [dirs |-> pop_back(dirs), panic |-> TRUE,
                      ops |-> Append(ops, "pop")]
    ELSE LET component_file == child(last_dir, Head(comps)) IN
         IF query_file_type(component_file) = "Directory"
            THEN walk(Tail(comps), push_back(dirs, component_file),
                      component_file, Append(ops, "push"))
            ELSE walk(Tail(comps), dirs, last_dir, ops)

Reverse(s) == [i \in 1..Len(s) |-> s[Len(s) + 1 - i]]

\* Variant: the components of the diff are walked in the reverse order.
on_new_selection_files_reordered(dirs, rt, sel) ==
    IF dirs = <<>>
        THEN Outcome(dirs, rt, <<>>, TRUE, <<>>)
    ELSE
        LET last_dir == dirs[Len(dirs)]
            diff == diff_paths(uri_path(Target(sel)), uri_path(last_dir))
        IN  IF ~diff.some
                THEN Outcome(dirs, rt, <<>>, TRUE, <<>>)
            ELSE LET w == walk(Reverse(diff.comps), dirs, last_dir, <<>>) IN
                 IF w.panic
                    THEN Outcome(w.dirs, rt, <<>>, TRUE, w.ops)
                    ELSE Outcome(w.dirs, rt,
                                 <<PreviewNewSelection(sel.parent, sel.files)>>,
                                 FALSE, w.ops)

\* AppMsg::NewSelection(Selection::Files(selection)): lib.rs:307-365.
\* The URIs of gio::File values parse, so the early return of lib.rs:318-321
\* is not taken.
on_new_selection_files(dirs, rt, sel) ==
    IF dirs = <<>>
        THEN Outcome(dirs, rt, <<>>, TRUE, <<>>)    \* last_dir(): expect fails
    ELSE
        LET last_dir == dirs[Len(dirs)]
            diff == diff_paths(uri_path(Target(sel)), uri_path(last_dir))
        IN  IF ~diff.some
                THEN Outcome(dirs, rt, <<>>, TRUE, <<>>)
            ELSE LET w == walk(diff.comps, dirs, last_dir, <<>>) IN
                 IF w.panic
                    THEN Outcome(w.dirs, rt, <<>>, TRUE, w.ops)
                    ELSE Outcome(w.dirs, rt,
                                 <<PreviewNewSelection(sel.parent, sel.files)>>,
                                 FALSE, w.ops)

\* Variant: an empty selection pops the deepest pane.
on_new_selection_none_pops(dirs, rt) ==
    Outcome(pop_back(dirs), rt, <<Hide>>, FALSE, <<>>)

\* AppMsg::NewSelection(Selection::None): lib.rs:366-370.
on_new_selection_none(dirs, rt) == Outcome(dirs, rt, <<Hide>>, FALSE, <<>>)

\* AppMsg::NewRoot(new_root): lib.rs:371-384.
on_new_root(dirs, rt, new_root) ==
    Outcome(push_back(clear(dirs), new_root), new_root, <<Hide>>, FALSE, <<>>)

\* Variant: a toast closes the deepest pane.
on_toast_pops(dirs, rt) == Outcome(pop_back(dirs), rt, <<>>, FALSE, <<>>)

\* AppMsg::Toast(message): lib.rs:396-398.
on_toast(dirs, rt) == Outcome(dirs, rt, <<>>, FALSE, <<>>)

\* AppMsg::Error(err): lib.rs:302-306.
on_error(dirs, rt) == Outcome(dirs, rt, <<>>, FALSE, <<>>)

\* AppMsg::Progress(progress): lib.rs:385-395.
on_progress(dirs, rt) == Outcome(dirs, rt, <<>>, FALSE, <<>>)

---------------------------------------------------------------------------
(* Actions *)

\* The directory AppModel::init starts in: lib.rs:212-218.
init_dir(f) ==
    IF query_file_type(f) # "Directory"
        THEN IF has_parent(f) THEN parent(f) ELSE f
    ELSE f

\* The entries selected in the first pane when AppModel::init returns: init
\* keeps only the directory of the path (lib.rs:212-218), and the
\* MultiSelection of a new pane has nothing selected
\* (directory_list.rs:166).
init_selection(f) == {}

\* AppModel::init for the path f: one pane, listing the start directory
\* (lib.rs:207-261).
InitAppWith(f) ==
    /\ root = init_dir(f)
    /\ directories = <<root>>
    /\ inbox = <<>>
    /\ panicked = FALSE
    /\ handled = [msg |-> Launch(f, init_selection(f)), before |-> <<>>,
                  emitted |-> <<>>, ops |-> <<>>]

InitApp == \E f \in StartPaths : InitAppWith(f)

\* FilePreviewModel::init (component/file_preview.rs:362-371).
InitPreview ==
    /\ fp_inbox = <<>>
    /\ resolutions = <<>>
    /\ abort_preview = 0
    /\ info = {}
    /\ preview = "None"
    /\ file_name_text = <<>>
    /\ file_type_text = <<>>
    /\ fp_handled = [msg |-> NoMsg, started |-> 0, preview_before |-> "None",
                     payload_before |-> NoPayload, hidden |-> FALSE]
    /\ payload = NoPayload
    /\ textures = <<>>
    /\ picture = NoFile
    /\ tx_handled = NoTexture

\* No task has been spawned by a pane, no transfer is shown.
IdleTask == [variant |-> "idle", entries |-> <<>>, results |-> <<>>,
             reported |-> FALSE, report |-> <<>>]

InitOps ==
    /\ ID = 0
    /\ trash = IdleTask
    /\ restore = <<>>
    /\ restoring = FALSE
    /\ sent = <<>>
    /\ progress = <<>>
    /\ crashed = FALSE

\* The item the trash holds when the program starts: an older /home/notes,
\* trashed before the present one was written.
OldNotes == Loc("trash", <<"notes">>)

\* The regular files the disk holds when the program starts, with their
\* contents: the local files the panes list and the item in the trash.
StartFiles ==
    [f \in { g \in RegularFiles : g.scheme = "file" } \cup {OldNotes} |->
        IF f = Loc("file", <<"home", "notes">>) THEN "shopping list"
        ELSE IF f = OldNotes THEN "old list"
        ELSE "report"]

\* trash::orig-path of the items the trash holds when the program starts;
\* origin and content are history: where the item was and what it held
\* when it was trashed.
StartTrash ==
    [t \in {OldNotes} |->
        [orig_path |-> <<"home", "notes">>,
         origin |-> Loc("file", <<"home", "notes">>),
         content |-> "old list"]]

\* Nothing has been dropped, trashed or restored.
NoStoreOp ==
    [op |-> "none", target |-> "none", file |-> Loc("file", <<>>),
     destination |-> Loc("file", <<>>), origin |-> Loc("file", <<>>),
     content |-> "", before |-> StartFiles,
     rejected |-> FALSE, moving |-> FALSE, ok |-> FALSE, error |-> FALSE]

InitStore ==
    /\ on_disk = StartFiles
    /\ in_trash = StartTrash
    /\ store_handled = NoStoreOp

\* Mount::init: component/mount.rs:91-101.
InitMount ==
    /\ mnt_inbox = <<>>
    /\ mnt_visible = FALSE
    /\ abort_handle = 0
    /\ mounts = <<>>
    /\ mnt_handled = NoMsg

\* The entries of the pane, in listing order.
Listing == <<"alice", "bob", "notes">>

\* build_list_item_view and register_entry_context_actions:
\* component/directory_list.rs:421-558, component/directory_list.rs:585.
InitRename ==
    /\ names = { Listing[i] : i \in 1..Len(Listing) }
    /\ handlers = {}
    /\ previous_handler_id = 0
    /\ signal_ids = 0
    /\ entry_text = ""
    /\ popover = FALSE
    /\ rename_handled = [type |-> "none", targets |-> <<>>, runs |-> <<>>]

InitUi == InitMount /\ InitRename

\* The pane stack on its own: the disk holds a short text without NUL bytes.
Init == InitApp /\ InitPreview /\ disk = Disk(TRUE, 10, 0) /\ InitOps
        /\ InitStore /\ InitUi

\* The items of the list model of a pane listing dir, each the name of an
\* entry; gtk::DirectoryList gives the item named n the file dir.child(n).
Items(dir) == { basename(f) : f \in Children(dir) }

\* Variant: the selected items are sent as Selection::Files even when there
\* are none.
send_new_selection_always_files(dir, selected_set) ==
    NewSelectionFiles(dir, { child(dir, item) : item \in selected_set })

\* send_new_selection (component/directory_list.rs:707-737): the AppMsg sent
\* for the selected items of the pane listing dir.
send_new_selection(dir, selected_set) ==
    IF selected_set = {}
        THEN NewSelectionNone
    ELSE NewSelectionFiles(dir, { child(dir, item) : item \in selected_set })

\* The selection-changed or items-changed signal of pane i runs
\* send_new_selection with selected_set selected.
SendSelectionOf(i, selected_set) ==
    /\ ~panicked
    /\ Len(inbox) < MaxInbox
    /\ inbox' = Append(inbox, send_new_selection(directories[i], selected_set))
    /\ UNCHANGED <<root, directories, panicked, handled, fp_vars, ops_vars, store_vars, ui_vars>>

SendNewSelection ==
    \E i \in 1..Len(directories) :
        \E selected_set \in SUBSET Items(directories[i]) :
            SendSelectionOf(i, selected_set)

\* The places sidebar sends AppMsg::NewRoot (component/places_sidebar.rs:354).
SendNewRoot ==
    /\ ~panicked
    /\ Len(inbox) < MaxInbox
    /\ \E f \in Places : inbox' = Append(inbox, NewRoot(f))
    /\ UNCHANGED <<root, directories, panicked, handled, fp_vars, ops_vars, store_vars, ui_vars>>

\* The effect of one run of update_with_view on the model's variables.
Apply(msg, out) ==
    /\ inbox' = Tail(inbox)
    /\ directories' = out.dirs
    /\ root' = out.root
    /\ panicked' = out.panic
    /\ handled' = [msg |-> msg, before |-> directories,
                   emitted |-> out.emitted, ops |-> out.ops]
    /\ UNCHANGED <<fp_vars, ops_vars, store_vars, ui_vars>>

UpdateNewSelectionFiles ==
    /\ ~panicked
    /\ inbox # <<>>
    /\ Head(inbox).type = "NewSelectionFiles"
    /\ Apply(Head(inbox), on_new_selection_files(directories, root, Head(inbox)))

UpdateNewSelectionNone ==
    /\ ~panicked
    /\ inbox # <<>>
    /\ Head(inbox).type = "NewSelectionNone"
    /\ Apply(Head(inbox), on_new_selection_none(directories, root))

UpdateNewRoot ==
    /\ ~panicked
    /\ inbox # <<>>
    /\ Head(inbox).type = "NewRoot"
    /\ Apply(Head(inbox), on_new_root(directories, root, Head(inbox).root))

\* The results and notifications of background tasks that reach AppModel
\* while panes are open.
Notifications ==
    { AppError("move", "alice"), Toast(<<"alice", "moved to trash">>),
      TransferProgress(0, 1, 2, "alice") }

\* A task or a pane sends a result or a notification.
SendNotification ==
    /\ ~panicked
    /\ Len(inbox) < MaxInbox
    /\ \E msg \in Notifications : inbox' = Append(inbox, msg)
    /\ UNCHANGED <<root, directories, panicked, handled, fp_vars, ops_vars, store_vars, ui_vars>>

TakeError ==
    /\ ~panicked
    /\ inbox # <<>>
    /\ Head(inbox).type = "Error"
    /\ Apply(Head(inbox), on_error(directories, root))

TakeProgress ==
    /\ ~panicked
    /\ inbox # <<>>
    /\ Head(inbox).type = "TransferProgress"
    /\ Apply(Head(inbox), on_progress(directories, root))

TakeToast ==
    /\ ~panicked
    /\ inbox # <<>>
    /\ Head(inbox).type = "Toast"
    /\ Apply(Head(inbox), on_toast(directories, root))

Next ==
    \/ SendNewSelection
    \/ SendNewRoot
    \/ SendNotification
    \/ UpdateNewSelectionFiles
    \/ UpdateNewSelectionNone
    \/ UpdateNewRoot
    \/ TakeError
    \/ TakeProgress
    \/ TakeToast

Spec == Init /\ [][Next]_vars

---------------------------------------------------------------------------
(* The preview resolver: FilePreviewModel (component/file_preview.rs) *)

\* The buffer size of read_start_of_file.
PREVIEW_BUFFER_SIZE == 4096

\* An entry a pane still lists although it is gone from the disk.
Vanished == Loc("file", <<"home", "gone">>)

\* The selections AppModel forwards to the file preview in this model: a
\* single regular file, a single directory, several entries, and several
\* entries one of which has vanished.
PreviewSelections ==
    { PreviewNewSelection(Loc("file", <<"home">>), fs) :
        fs \in { {Loc("file", <<"home", "notes">>)},
                 {Loc("file", <<"home", "bob">>)},
                 {Loc("file", <<"home", "alice">>), Loc("file", <<"home", "notes">>)},
                 {Loc("file", <<"home", "notes">>), Vanished} } }

\* gio::content_type_get_mime_type of the entry's content type.
Mime(f) ==
    IF query_file_type(f) = "Directory" THEN <<"inode", "directory">>
    ELSE IF f.path[Len(f.path)] = "notes" THEN <<"text", "plain">>
    ELSE IF f.path[Len(f.path)] = "report" THEN <<"application", "pdf">>
    ELSE IF f.path[Len(f.path)] = "photo" THEN <<"image", "jpeg">>
    ELSE IF f.path[Len(f.path)] = "logo" THEN <<"image", "png">>
    ELSE <<"application", "octet-stream">>

\* poppler::Document::n_pages of the document loaded from a PDF file.
n_pages(f) == 2

\* Pdf::new: file_preview/pdf.rs:8-13.
Pdf_new(pages) == [file |-> NoFile, n_pages |-> pages, page_index |-> 0]

\* FilePreview::Image(file) and FilePreview::Video(file) hold the file.
OfFile(f) == [file |-> f, n_pages |-> 0, page_index |-> 0]

\* Pdf::has_previous_page: file_preview/pdf.rs:15-17.
has_previous_page(pdf) == pdf.page_index > 0

\* Pdf::has_next_page: file_preview/pdf.rs:19-21.
has_next_page(pdf) == pdf.page_index < pdf.n_pages - 1

\* Variant: Next turns the page whatever the page shown.
update_page_unguarded(pdf, change) ==
    IF change = "Previous" /\ has_previous_page(pdf)
        THEN [pdf EXCEPT !.page_index = @ - 1]
    ELSE IF change = "Next"
        THEN [pdf EXCEPT !.page_index = @ + 1]
    ELSE pdf

\* Pdf::update_page: file_preview/pdf.rs:27-33.
update_page(pdf, change) ==
    IF change = "Previous" /\ has_previous_page(pdf)
        THEN [pdf EXCEPT !.page_index = @ - 1]
    ELSE IF change = "Next" /\ has_next_page(pdf)
        THEN [pdf EXCEPT !.page_index = @ + 1]
    ELSE pdf

\* is_plain_text: component/file_preview.rs:653-663.
is_plain_text(mime) ==
    \/ mime[1] = "text"
    \/ mime \in { <<"application", "javascript">>, <<"application", "json">>,
                  <<"application", "toml">>, <<"application", "x-shellscript">>,
                  <<"application", "xml">> }

\* A Vec<u8> read from a file: its length and the offset of its first NUL
\* byte, 0 when it holds none.
Bytes(len, nul_at) == [len |-> len, nul_at |-> nul_at]

Min(a, b) == IF a <= b THEN a ELSE b

\* read_start_of_file: component/file_preview.rs:631-647.  The reader is
\* cut off after PREVIEW_BUFFER_SIZE bytes.
read_start_of_file(d) ==
    IF ~d.readable
        THEN [ok |-> FALSE, bytes |-> Bytes(0, 0)]
        ELSE LET n == Min(d.size, PREVIEW_BUFFER_SIZE) IN
             [ok |-> TRUE,
              bytes |-> Bytes(n, IF d.nul_at <= n THEN d.nul_at ELSE 0)]

\* Result::unwrap_or_default on the bytes read: an empty vector on Err.
unwrap_or_default(r) == IF r.ok THEN r.bytes ELSE Bytes(0, 0)

\* Option<Vec<u8>>
NoContents == [some |-> FALSE, bytes |-> Bytes(0, 0)]
SomeContents(b) == [some |-> TRUE, bytes |-> b]

\* Variant: the contents are read whatever the size of the selection.
FileInfo_always_read(f, is_single_file, d) ==
    [file |-> f,
     file_type |-> query_file_type(f),
     mime |-> Mime(f),
     contents |-> IF is_plain_text(Mime(f))
                    THEN SomeContents(unwrap_or_default(read_start_of_file(d)))
                    ELSE NoContents]

\* One entry of query_selection_info's join_all: file_preview.rs:583-625.
FileInfo(f, is_single_file, d) ==
    [file |-> f,
     file_type |-> query_file_type(f),
     mime |-> Mime(f),
     contents |-> IF is_single_file /\ is_plain_text(Mime(f))
                    THEN SomeContents(unwrap_or_default(read_start_of_file(d)))
                    ELSE NoContents]

Ok(i) == [ok |-> TRUE, info |-> i]
Err == [ok |-> FALSE, info |-> {}]

\* Variant: a single directory is queried like any other entry.
query_selection_info_no_fast_path(sel, d) ==
    IF \E f \in sel.files : query_file_type(f) = "Unknown"
        THEN Err
    ELSE Ok({ FileInfo(f, Cardinality(sel.files) = 1, d) : f \in sel.files })

\* query_selection_info: file_preview.rs:552-628.  The vector of FileInfo is
\* modelled by the set of its members; d is what the disk holds.
query_selection_info(sel, d) ==
    IF /\ Cardinality(sel.files) = 1
       /\ \A f \in sel.files : query_file_type(f) = "Directory"
        THEN Ok({})
    ELSE IF \E f \in sel.files : query_file_type(f) = "Unknown"
        THEN Err
    ELSE Ok({ FileInfo(f, Cardinality(sel.files) = 1, d) : f \in sel.files })

\* Variant: the bytes read are shown as text whatever they hold.
single_file_preview_any_bytes(file) ==
    IF file.mime[1] = "image" THEN "Image"
    ELSE IF file.mime[1] = "video" THEN "Video"
    ELSE IF file.mime[2] = "pdf" THEN "Pdf"
    ELSE IF file.contents.some THEN "Text"
    ELSE "Icon"

\* The preview chosen by update_single_file_preview: file_preview.rs:107-147.
single_file_preview(file) ==
    IF file.mime[1] = "image" THEN "Image"
    ELSE IF file.mime[1] = "video" THEN "Video"
    ELSE IF file.mime[2] = "pdf" THEN "Pdf"
    ELSE IF file.contents.some /\ file.contents.bytes.nul_at = 0 THEN "Text"
    ELSE "Icon"

\* pluralize!: util.rs:141-149.
pluralize(n) == IF n # 1 THEN "s" ELSE ""

\* The match of format_item_types on the two counters:
\* file_preview.rs:678-688.  A text is the sequence of its words.
format_counts(documents, folders) ==
    IF documents = 0
        THEN <<ToString(folders), "folder" \o pluralize(folders)>>
    ELSE IF folders = 0
        THEN <<ToString(documents), "document" \o pluralize(documents)>>
    ELSE <<ToString(documents), "document" \o pluralize(documents),
           ToString(folders), "folder" \o pluralize(folders)>>

\* format_item_types: file_preview.rs:666-689.
format_item_types(files) ==
    LET folders == Cardinality({ f \in files : f.file_type = "Directory" })
        documents == Cardinality({ f \in files : f.file_type # "Directory" })
    IN  format_counts(documents, folders)

\* update_single_file_preview: file_preview.rs:79-152.  The size in
\* file_type_text and the two date texts are left out.
update_single_file_preview(files) ==
    LET file == CHOOSE f \in files : TRUE
        kind == single_file_preview(file)
    IN
    [file_name_text |-> <<file.file.path[Len(file.file.path)]>>,
     file_type_text |-> <<file.mime[1], file.mime[2]>>,
     preview |-> kind,
     payload |-> IF kind \in {"Image", "Video"} THEN OfFile(file.file)
                 ELSE IF kind = "Pdf" THEN Pdf_new(n_pages(file.file))
                 ELSE NoPayload,
     spawned |-> IF kind = "Image" THEN <<file.file>> ELSE <<>>]

\* update_multiple_file_preview: file_preview.rs:154-185.  The total size
\* in file_type_text and the two date texts are left out.
update_multiple_file_preview(files) ==
    [file_name_text |-> <<ToString(Cardinality(files)), "items">>,
     file_type_text |-> format_item_types(files),
     preview |-> "Icon",
     payload |-> NoPayload,
     spawned |-> <<>>]

FileInfoLoaded(result, id) ==
    [type |-> "FileInfoLoaded", ok |-> result.ok, info |-> result.info,
     resolution |-> id]

\* Variant: aborting a handle has no effect.
abort_ignored(rs, handle) == rs

\* AbortHandle::abort: a future that has not yet delivered resolves to
\* Err(Aborted) and sends nothing; one that has delivered is not affected.
abort(rs, handle) ==
    IF handle = 0 THEN rs
    ELSE [rs EXCEPT ![handle].state = IF @ = "running" THEN "aborted" ELSE @]

NewSelectionsWaiting ==
    Cardinality({ i \in 1..Len(fp_inbox) : fp_inbox[i].type = "NewSelection" })

\* AppModel emits FilePreviewMsg::NewSelection (lib.rs:361-362).
EmitNewSelection ==
    /\ Len(fp_inbox) < MaxFpInbox
    /\ Len(resolutions) + NewSelectionsWaiting < MaxResolutions
    /\ \E sel \in PreviewSelections : fp_inbox' = Append(fp_inbox, sel)
    /\ UNCHANGED <<disk, resolutions, abort_preview, info, preview,
                   file_name_text, file_type_text, fp_handled, payload,
                   viewer_vars, app_vars, ops_vars, store_vars, ui_vars>>

\* AppModel emits FilePreviewMsg::Hide (lib.rs:367, lib.rs:381).
EmitHide ==
    /\ Len(fp_inbox) < MaxFpInbox
    /\ fp_inbox' = Append(fp_inbox, Hide)
    /\ UNCHANGED <<disk, resolutions, abort_preview, info, preview,
                   file_name_text, file_type_text, fp_handled, payload,
                   viewer_vars, app_vars, ops_vars, store_vars, ui_vars>>

\* The future spawned for a resolution runs to its end and sends its result
\* (file_preview.rs:417-422).
ResolutionCompletes ==
    /\ Len(fp_inbox) < MaxFpInbox
    /\ \E i \in 1..Len(resolutions) :
        /\ resolutions[i].state = "running"
        /\ resolutions' = [resolutions EXCEPT ![i].state = "delivered"]
        /\ fp_inbox' = Append(fp_inbox,
                FileInfoLoaded(query_selection_info(resolutions[i].sel, disk), i))
    /\ UNCHANGED <<disk, abort_preview, info, preview, file_name_text,
                   file_type_text, fp_handled, payload, viewer_vars,
                   app_vars, ops_vars, store_vars, ui_vars>>

\* History kept on taking a message: the message, the number of resolutions
\* started so far, the preview before the message was handled, and whether
\* the last request handled was a Hide.
FpTake ==
    /\ fp_inbox' = Tail(fp_inbox)
    /\ fp_handled' =
        [msg |-> Head(fp_inbox),
         started |-> Len(resolutions),
         preview_before |-> preview,
         payload_before |-> payload,
         hidden |-> IF Head(fp_inbox).type = "Hide" THEN TRUE
                    ELSE IF Head(fp_inbox).type = "NewSelection" THEN FALSE
                    ELSE fp_handled.hidden]
    /\ UNCHANGED <<disk, picture, tx_handled, app_vars, ops_vars, store_vars, ui_vars>>

\* FilePreviewMsg::Hide: file_preview.rs:398-402.
FpUpdateHide ==
    /\ fp_inbox # <<>>
    /\ Head(fp_inbox).type = "Hide"
    /\ info' = {}
    /\ FpTake
    /\ UNCHANGED <<resolutions, abort_preview, preview, file_name_text,
                   file_type_text, payload, textures>>

\* FilePreviewMsg::NewSelection: file_preview.rs:403-423.  cut records that
\* the handle of a resolution was aborted while its future was running.
FpUpdateNewSelection ==
    /\ fp_inbox # <<>>
    /\ Head(fp_inbox).type = "NewSelection"
    /\ LET aborted == abort(resolutions, abort_preview)
           noted == [i \in 1..Len(resolutions) |->
                        [aborted[i] EXCEPT !.cut =
                            @ \/ (i = abort_preview
                                  /\ resolutions[i].state = "running")]]
       IN  resolutions' = Append(noted,
                [sel |-> Head(fp_inbox), state |-> "running", cut |-> FALSE])
    /\ abort_preview' = Len(resolutions) + 1
    /\ FpTake
    /\ UNCHANGED <<info, preview, file_name_text, file_type_text, payload,
                   textures>>

\* FilePreviewMsg::FileInfoLoaded(Err(e)): file_preview.rs:424-430.
FpUpdateFileInfoLoadedErr ==
    /\ fp_inbox # <<>>
    /\ Head(fp_inbox).type = "FileInfoLoaded"
    /\ ~Head(fp_inbox).ok
    /\ abort_preview' = 0
    /\ preview' = "Error"
    /\ payload' = NoPayload
    /\ FpTake
    /\ UNCHANGED <<resolutions, info, file_name_text, file_type_text,
                   textures>>

\* FilePreviewMsg::FileInfoLoaded(Ok(info)): file_preview.rs:431-443.
FpUpdateFileInfoLoadedOk ==
    /\ fp_inbox # <<>>
    /\ Head(fp_inbox).type = "FileInfoLoaded"
    /\ Head(fp_inbox).ok
    /\ abort_preview' = 0
    /\ info' = Head(fp_inbox).info
    /\ LET updated ==
            IF Cardinality(info') = 0
                THEN [file_name_text |-> file_name_text,
                      file_type_text |-> file_type_text,
                      preview |-> preview,
                      payload |-> payload,
                      spawned |-> <<>>]
            ELSE IF Cardinality(info') = 1
                THEN update_single_file_preview(info')
            ELSE update_multiple_file_preview(info')
       IN  /\ file_name_text' = updated.file_name_text
           /\ file_type_text' = updated.file_type_text
           /\ preview' = updated.preview
           /\ payload' = updated.payload
           /\ textures' = textures \o updated.spawned
    /\ FpTake
    /\ UNCHANGED resolutions

\* FilePreviewMsg::ChangePdfPage(change): file_preview.rs:444-453.
FpUpdateChangePdfPage ==
    /\ fp_inbox # <<>>
    /\ Head(fp_inbox).type = "ChangePdfPage"
    /\ payload' = IF preview = "Pdf"
                     THEN update_page(payload, Head(fp_inbox).change)
                     ELSE payload
    /\ FpTake
    /\ UNCHANGED <<resolutions, abort_preview, info, preview, file_name_text,
                   file_type_text, textures>>

\* Variant: a texture is shown whenever an image is previewed.
is_previewed_any_image(file) == preview = "Image"

\* The guard of update_cmd_with_view: file_preview.rs:467.
is_previewed(file) == preview = "Image" /\ payload.file = file

\* A texture load spawned by update_single_file_preview
\* (file_preview.rs:114-118) ends with either result, in any order with the
\* other loads, and its TextureLoaded is handled by update_cmd_with_view
\* (file_preview.rs:459-472).  The output of a command has no effect before
\* it is handled, so the end of the load and the handling are one step.
UpdateCmdTextureLoaded ==
    /\ \E i \in 1..Len(textures), ok \in BOOLEAN :
        LET file == textures[i]
            displayed == ok /\ is_previewed(file)
        IN  /\ textures' = SubSeq(textures, 1, i - 1)
                                \o SubSeq(textures, i + 1, Len(textures))
            /\ picture' = IF displayed THEN file ELSE picture
            /\ tx_handled' = [file |-> file, ok |-> ok,
                              displayed |-> displayed,
                              picture_before |-> picture,
                              preview |-> preview,
                              payload |-> payload]
    /\ UNCHANGED <<fp_inbox, resolutions, abort_preview, info, preview,
                   file_name_text, file_type_text, fp_handled, disk, payload,
                   app_vars, ops_vars, store_vars, ui_vars>>

\* The selections of the viewer: a photo, a logo and a PDF report.
ViewerSelections ==
    { PreviewNewSelection(parent(f), {f}) :
        f \in { Loc("sftp", <<"photo">>), Loc("sftp", <<"logo">>),
                 Loc("file", <<"home", "bob", "report">>) } }

\* AppModel emits FilePreviewMsg::NewSelection for an image or a PDF
\* (lib.rs:361-362).
EmitViewerSelection ==
    /\ Len(fp_inbox) < MaxFpInbox
    /\ Len(resolutions) + NewSelectionsWaiting < MaxResolutions
    /\ \E sel \in ViewerSelections : fp_inbox' = Append(fp_inbox, sel)
    /\ UNCHANGED <<disk, resolutions, abort_preview, info, preview,
                   file_name_text, file_type_text, fp_handled, payload,
                   viewer_vars, app_vars, ops_vars, store_vars, ui_vars>>

\* The selections of the PDF viewer: the report and a plain text.
PdfSelections ==
    { PreviewNewSelection(parent(f), {f}) :
        f \in { Loc("file", <<"home", "bob", "report">>),
                 Loc("file", <<"home", "notes">>) } }

\* AppModel emits FilePreviewMsg::NewSelection for a PDF or a text
\* (lib.rs:361-362).
EmitPdfSelection ==
    /\ Len(fp_inbox) < MaxFpInbox
    /\ Len(resolutions) + NewSelectionsWaiting < MaxResolutions
    /\ \E sel \in PdfSelections : fp_inbox' = Append(fp_inbox, sel)
    /\ UNCHANGED <<disk, resolutions, abort_preview, info, preview,
                   file_name_text, file_type_text, fp_handled, payload,
                   viewer_vars, app_vars, ops_vars, store_vars, ui_vars>>

\* A click on one of the two page buttons (file_preview.rs:285-286,
\* file_preview.rs:296-297).
ClickPdfButton ==
    /\ Len(fp_inbox) < MaxFpInbox
    /\ \E change \in {"Previous", "Next"} :
        fp_inbox' = Append(fp_inbox, ChangePdfPage(change))
    /\ UNCHANGED <<disk, resolutions, abort_preview, info, preview,
                   file_name_text, file_type_text, fp_handled, payload,
                   viewer_vars, app_vars, ops_vars, store_vars, ui_vars>>

NextPreview ==
    \/ EmitNewSelection
    \/ EmitHide
    \/ ResolutionCompletes
    \/ FpUpdateHide
    \/ FpUpdateNewSelection
    \/ FpUpdateFileInfoLoadedErr
    \/ FpUpdateFileInfoLoadedOk

\* The preview resolver on its own, under an application that stays in its
\* initial state.
InitPreviewOnly ==
    /\ InitAppWith(Loc("file", <<"home">>))
    /\ InitPreview
    /\ disk \in Disks
    /\ InitOps
    /\ InitStore
    /\ InitUi

SpecPreview == InitPreviewOnly /\ [][NextPreview]_vars

\* The preview of images, on a disk that does not change.
NextViewer ==
    \/ EmitViewerSelection
    \/ ResolutionCompletes
    \/ FpUpdateNewSelection
    \/ FpUpdateFileInfoLoadedOk
    \/ UpdateCmdTextureLoaded

InitViewerOnly ==
    /\ InitAppWith(Loc("file", <<"home">>))
    /\ InitPreview
    /\ disk = Disk(TRUE, 10, 0)
    /\ InitOps
    /\ InitStore
    /\ InitUi

SpecViewer == InitViewerOnly /\ [][NextViewer]_vars

\* The pages of a PDF preview, on a disk that does not change.
NextPdf ==
    \/ EmitPdfSelection
    \/ ClickPdfButton
    \/ ResolutionCompletes
    \/ FpUpdateNewSelection
    \/ FpUpdateFileInfoLoadedOk
    \/ FpUpdateChangePdfPage

SpecPdf == InitViewerOnly /\ [][NextPdf]_vars

---------------------------------------------------------------------------
(* The file operations: trash and restore batches of a Directory pane     *)
(* (component/directory_list.rs, directory_list.rs), ops::move_ (ops.rs)  *)
(* and the transfers AppModel shows.  Every task sends its AppMsg values  *)
(* into AppModel's input channel, sent, which AppModel takes in order.    *)

\* The sizes in bytes of the files moved: gio reports the progress of a
\* move once per byte.
FileSizes == {2}

\* selected_file_info: component/directory_list.rs:66-76.  The selected
\* entries in listing order.
selected_file_info(selected) == SelectSeq(Listing, LAMBDA e : e \in selected)

Selections == { s \in SUBSET { Listing[i] : i \in 1..Len(Listing) } :
                  Cardinality(s) <= MaxBatch }

\* The error reports of TrashSelection, in the order of the entries:
\* component/directory_list.rs:351-360.
RECURSIVE trash_errors(_, _)
trash_errors(entries, results) ==
    IF entries = <<>> THEN <<>>
    ELSE (IF Head(results) = "err"
            THEN <<AppError("trash", Head(entries))>>
            ELSE <<>>)
         \o trash_errors(Tail(entries), Tail(results))

\* The entries whose trash_future ended in Ok:
\* component/directory_list.rs:351-360, directory_list.rs:240-250.
RECURSIVE trashed_files(_, _)
trashed_files(entries, results) ==
    IF entries = <<>> THEN <<>>
    ELSE (IF Head(results) = "ok" THEN <<Head(entries)>> ELSE <<>>)
         \o trashed_files(Tail(entries), Tail(results))

\* The toast of TrashSelection: component/directory_list.rs:362-367.
trash_toast(trashed) ==
    IF trashed = <<>> THEN <<>>
    ELSE <<Toast(IF Len(trashed) = 1
                    THEN <<trashed[1], "moved to trash">>
                    ELSE <<ToString(Len(trashed)), "files moved to trash">>)>>

\* Variant: the toast is sent before the error reports.
trash_report_toast_first(variant, entries, results) ==
    IF variant = "component::directory_list"
        THEN trash_toast(trashed_files(entries, results))
             \o trash_errors(entries, results)
        ELSE trash_toast(trashed_files(entries, results))

\* What the task of TrashSelection sends once join_all has ended.  The
\* Directory of component/directory_list.rs reports every Err and then the
\* toast; the Directory of directory_list.rs drops the Err results.
trash_report(variant, entries, results) ==
    IF variant = "component::directory_list"
        THEN trash_errors(entries, results)
             \o trash_toast(trashed_files(entries, results))
        ELSE trash_toast(trashed_files(entries, results))

\* Variant: the counter is read and left as it is.
fetch_add_not_added(id) == [old |-> id, new |-> id]

\* ID.fetch_add(1, Ordering::SeqCst): ops.rs:15, ops.rs:56.  The counter is
\* an AtomicU64; no run of the model gets near its width.
fetch_add(id) == [old |-> id, new |-> id + 1]

\* Progress::is_complete: ops.rs:29-31.
is_complete(p) == p.current = p.total

\* TransferProgress::init_model: component/transfer_progress.rs:60-67.
init_model(new) == [id |-> new.id, description |-> new.description,
                    current |-> 0, total |-> 1]

\* Variant: every child takes the counters of the message.
update_progress_all(children, p) ==
    [i \in 1..Len(children) |->
        [children[i] EXCEPT !.current = p.current, !.total = p.total]]

\* AppMsg::Progress: lib.rs:385-395, and TransferProgress::update:
\* component/transfer_progress.rs:69-76.  The first child with the id of the
\* message takes its counters.
update_progress(children, p) ==
    LET matching == { i \in 1..Len(children) : children[i].id = p.id } IN
    IF matching = {} THEN children
    ELSE LET idx == CHOOSE i \in matching : \A j \in matching : i <= j IN
         [children EXCEPT ![idx].current = p.current, ![idx].total = p.total]

\* The removal of an operation whose final update has come.
remove_complete(children, p) ==
    IF is_complete(p)
        THEN SelectSeq(children, LAMBDA c : c.id # p.id)
        ELSE children

NoTaskYet == trash.variant = "idle" /\ ~restoring

OthersUnchanged == UNCHANGED <<app_vars, fp_vars, store_vars, ui_vars>>

\* DirectoryMessage::TrashSelection: component/directory_list.rs:336-349 and
\* directory_list.rs:227-238.  The task is spawned with one trash_future per
\* selected entry.
TrashSelection ==
    /\ NoTaskYet
    /\ \E variant \in {"component::directory_list", "directory_list"},
          selected \in Selections :
         LET entries == selected_file_info(selected) IN
         trash' = [variant |-> variant, entries |-> entries,
                   results |-> [i \in 1..Len(entries) |-> "pending"],
                   reported |-> FALSE, report |-> <<>>]
    /\ UNCHANGED <<ID, restore, restoring, sent, progress, crashed>>
    /\ OthersUnchanged

\* One trash_future of the batch ends, in Ok or in Err.
TrashCompletes ==
    /\ ~crashed
    /\ \E i \in 1..Len(trash.results), r \in {"ok", "err"} :
         /\ trash.results[i] = "pending"
         /\ trash' = [trash EXCEPT !.results[i] = r]
    /\ UNCHANGED <<ID, restore, restoring, sent, progress, crashed>>
    /\ OthersUnchanged

\* join_all has ended: component/directory_list.rs:351-368,
\* directory_list.rs:240-257.  report keeps what the task sent.
TrashReport ==
    /\ ~crashed
    /\ trash.variant # "idle"
    /\ ~trash.reported
    /\ \A i \in 1..Len(trash.results) : trash.results[i] # "pending"
    /\ LET report == trash_report(trash.variant, trash.entries, trash.results)
       IN  /\ sent' = sent \o report
           /\ trash' = [trash EXCEPT !.reported = TRUE, !.report = report]
    /\ UNCHANGED <<ID, restore, restoring, progress, crashed>>
    /\ OthersUnchanged

\* DirectoryMessage::RestoreSelectionFromTrash:
\* component/directory_list.rs:370-377.  One future per selected entry; id
\* and total are those of the entry's move once it has started, current is
\* the number of bytes gio has reported as moved and forwarded the number of
\* reports the loop of move_ has sent on.  alerts is history: the number of
\* alerts AppModel has shown for an error of the entry's move; news is
\* history: the number of Transfer::New messages the move has sent.
RestoreSelectionFromTrash ==
    /\ NoTaskYet
    /\ \E selected \in Selections :
         LET entries == selected_file_info(selected) IN
         restore' = [i \in 1..Len(entries) |->
                        [entry |-> entries[i], pc |-> "query", id |-> 0,
                         total |-> 0, current |-> 0, forwarded |-> 0,
                         alerts |-> 0, news |-> 0]]
    /\ restoring' = TRUE
    /\ UNCHANGED <<ID, trash, sent, progress, crashed>>
    /\ OthersUnchanged

\* The query of trash::orig-path ends in Err and the entry's future reports
\* it and returns: component/directory_list.rs:380-394.
RestoreQueryFails ==
    /\ ~crashed
    /\ Len(sent) < MaxPending
    /\ \E i \in 1..Len(restore) :
         /\ restore[i].pc = "query"
         /\ restore' = [restore EXCEPT ![i].pc = "query failed"]
         /\ sent' = Append(sent, AppError("restore", restore[i].entry))
    /\ UNCHANGED <<ID, trash, restoring, progress, crashed>>
    /\ OthersUnchanged

\* The query ends in Ok but the FileInfo has no trash::orig-path and
\* unwrap panics: component/directory_list.rs:396-398.  The panic ends the
\* program: no future of the batch takes another step.
RestoreQueryAbsent ==
    /\ ~crashed
    /\ \E i \in 1..Len(restore) :
         /\ restore[i].pc = "query"
         /\ restore' = [restore EXCEPT ![i].pc = "panicked"]
    /\ crashed' = TRUE
    /\ UNCHANGED <<ID, trash, restoring, sent, progress>>
    /\ OthersUnchanged

\* The query ends in Ok with the original path and ops::move_ is called
\* (component/directory_list.rs:396-401); once the two display names are
\* there, move_ takes its id, announces the transfer and starts the move
\* (ops.rs:35-72).
\* Variant: the transfer is not announced.
announce_nothing(id, entry) == <<>>

\* sender.send(AppMsg::Transfer(Transfer::New {id, description})):
\* ops.rs:63-65.
announce(id, entry) == <<TransferNew(id, entry)>>

MoveStart ==
    /\ ~crashed
    /\ Len(sent) < MaxPending
    /\ \E i \in 1..Len(restore), size \in FileSizes :
         /\ restore[i].pc = "query"
         /\ restore' = [restore EXCEPT ![i].pc = "moving",
                                       ![i].id = fetch_add(ID).old,
                                       ![i].total = size,
                                       ![i].news =
                                           Len(announce(fetch_add(ID).old,
                                                        restore[i].entry))]
         /\ ID' = fetch_add(ID).new
         /\ sent' = sent \o announce(fetch_add(ID).old, restore[i].entry)
    /\ UNCHANGED <<trash, restoring, progress, crashed>>
    /\ OthersUnchanged

\* gio reports that one more byte of a running move is moved: the report
\* waits in the progress stream of move_future (ops.rs:67-71).
MoveProgress ==
    /\ ~crashed
    /\ \E i \in 1..Len(restore) :
         /\ restore[i].pc = "moving"
         /\ restore[i].current < restore[i].total
         /\ restore' = [restore EXCEPT ![i].current = @ + 1]
    /\ UNCHANGED <<ID, trash, restoring, sent, progress, crashed>>
    /\ OthersUnchanged

\* Variant: the reports of the stream are taken newest first.
next_report_newest_first(task) == task.current - task.forwarded

\* progress.next(): the reports leave the stream in the order gio made them
\* (ops.rs:75).  A report is the number of bytes moved so far.
next_report(task) == task.forwarded + 1

\* The loop spawned by move_ sends on the next report of the stream, also
\* after move_ has returned: ops.rs:73-82.
ForwardProgress ==
    /\ ~crashed
    /\ Len(sent) < MaxPending
    /\ \E i \in 1..Len(restore) :
         /\ restore[i].forwarded < restore[i].current
         /\ restore' = [restore EXCEPT ![i].forwarded = @ + 1]
         /\ sent' = Append(sent,
                TransferProgress(restore[i].id, next_report(restore[i]),
                                 restore[i].total, restore[i].entry))
    /\ UNCHANGED <<ID, trash, restoring, progress, crashed>>
    /\ OthersUnchanged

\* Variant: the end of the move is reported whatever the result.
report_result_always(res, entry) == <<AppError("move", entry)>>

\* What move_ sends once the move has ended: ops.rs:84-86.
report_result(res, entry) ==
    IF res = "Err" THEN <<AppError("move", entry)>> ELSE <<>>

\* The move ends in Ok once every byte is moved: ops.rs:84.
MoveSucceeds ==
    /\ ~crashed
    /\ \E i \in 1..Len(restore) :
         /\ restore[i].pc = "moving"
         /\ restore[i].current = restore[i].total
         /\ restore' = [restore EXCEPT ![i].pc = "moved"]
         /\ sent' = sent \o report_result("Ok", restore[i].entry)
    /\ UNCHANGED <<ID, trash, restoring, progress, crashed>>
    /\ OthersUnchanged

\* The move ends in Err and move_ reports it: ops.rs:84-86.
MoveFails ==
    /\ ~crashed
    /\ Len(sent) < MaxPending
    /\ \E i \in 1..Len(restore) :
         /\ restore[i].pc = "moving"
         /\ restore' = [restore EXCEPT ![i].pc = "move failed"]
         /\ sent' = sent \o report_result("Err", restore[i].entry)
    /\ UNCHANGED <<ID, trash, restoring, progress, crashed>>
    /\ OthersUnchanged

NextMsg == Head(sent)

AppTakes(type) ==
    /\ ~crashed
    /\ sent # <<>>
    /\ NextMsg.type = type
    /\ sent' = Tail(sent)
    /\ UNCHANGED <<ID, trash, restoring, crashed>>
    /\ OthersUnchanged

\* self.error_alert.emit(AlertMsg::Show {..}) (lib.rs:303-305): one alert is
\* shown; when the error is that of a move, the move's task counts it.
show_alert(tasks, msg) ==
    [i \in 1..Len(tasks) |->
        IF msg.by = "move" /\ tasks[i].entry = msg.entry
            THEN [tasks[i] EXCEPT !.alerts = @ + 1]
        ELSE tasks[i]]

\* AppMsg::Error: lib.rs:302-306.
UpdateError ==
    /\ AppTakes("Error")
    /\ restore' = show_alert(restore, NextMsg)
    /\ UNCHANGED progress

\* AppMsg::Toast: lib.rs:396-398.
UpdateToast ==
    /\ AppTakes("Toast")
    /\ UNCHANGED <<restore, progress>>

\* AppMsg::Transfer(Transfer::New {..}): a new operation enters the set of
\* active operations.
UpdateTransferNew ==
    /\ AppTakes("TransferNew")
    /\ progress' = Append(progress, init_model(NextMsg))
    /\ UNCHANGED restore

\* AppMsg::Transfer(Transfer::Progress(..)): the operation is updated, and
\* removed when the update is the final one.
UpdateTransferProgress ==
    /\ AppTakes("TransferProgress")
    /\ progress' = remove_complete(update_progress(progress, NextMsg), NextMsg)
    /\ UNCHANGED restore

NextOps ==
    \/ TrashSelection
    \/ TrashCompletes
    \/ TrashReport
    \/ RestoreSelectionFromTrash
    \/ RestoreQueryFails
    \/ RestoreQueryAbsent
    \/ MoveStart
    \/ MoveProgress
    \/ ForwardProgress
    \/ MoveSucceeds
    \/ MoveFails
    \/ UpdateError
    \/ UpdateToast
    \/ UpdateTransferNew
    \/ UpdateTransferProgress

\* The file operations on their own, under a pane stack and a preview that
\* stay in their initial states.
InitOpsOnly ==
    /\ InitAppWith(Loc("file", <<"home">>))
    /\ InitPreview
    /\ disk = Disk(TRUE, 10, 0)
    /\ InitOps
    /\ InitStore
    /\ InitUi

SpecOps == InitOpsOnly /\ [][NextOps]_vars

---------------------------------------------------------------------------
(* The Progress arm of AppModel on its own: the progress reports of        *)
(* transfers that were announced before, handled in any order.             *)

\* The ids of the transfers that can be active, and one that never is.
ActiveIds == 0..2
StrayId == 3

\* The progress reports that can reach AppModel.
ProgressReports ==
    { TransferProgress(id, current, total, "alice") :
        id \in ActiveIds \cup {StrayId}, current \in 0..2, total \in 1..2 }

\* The children of AppModel.progress for the transfers with the ids in ids,
\* in the order of their ids, each as TransferProgress::init_model made it.
RECURSIVE Announced(_, _)
Announced(ids, from) ==
    IF from > 2 THEN <<>>
    ELSE IF from \in ids
        THEN <<init_model(TransferNew(from, "alice"))>> \o Announced(ids, from + 1)
    ELSE Announced(ids, from + 1)

\* AppMsg::Progress(p) is handled: lib.rs:385-395.
UpdateProgressWith(p) ==
    /\ progress' = update_progress(progress, p)
    /\ UNCHANGED <<ID, trash, restore, restoring, sent, crashed>>
    /\ OthersUnchanged

UpdateProgress == \E p \in ProgressReports : UpdateProgressWith(p)

NextProgress == UpdateProgress

\* Some transfers have been announced and none has reported yet; the pane
\* stack, the preview and the disk stay in their initial states.
InitProgressOnly ==
    /\ InitAppWith(Loc("file", <<"home">>))
    /\ InitPreview
    /\ disk = Disk(TRUE, 10, 0)
    /\ InitStore
    /\ InitUi
    /\ ID = 3
    /\ trash = IdleTask
    /\ restore = <<>>
    /\ restoring = FALSE
    /\ sent = <<>>
    /\ crashed = FALSE
    /\ \E ids \in SUBSET ActiveIds : progress = Announced(ids, 0)

SpecProgress == InitProgressOnly /\ [][NextProgress]_vars

---------------------------------------------------------------------------
(* Files on disk: what a drop, a trash and a restore do to them.  The      *)
(* entries dragged, trashed and restored are regular files; the            *)
(* directories stay where they are.                                        *)

\* A disk without the entry at f.
Without(files, f) == [g \in DOMAIN files \ {f} |-> files[g]]

\* A disk with content stored at f.
With(files, f, content) ==
    [g \in DOMAIN files \cup {f} |-> IF g = f THEN content ELSE files[g]]

\* gio::File::move_ and move_future with FileCopyFlags::NONE: the source
\* must exist and the destination must not, since nothing is overwritten.
\* The result is ok with the disk after the move, or an error with the disk
\* as it was.
gio_move(files, file, destination) ==
    IF file \notin DOMAIN files \/ destination \in DOMAIN files
        THEN [ok |-> FALSE, files |-> files]
    ELSE [ok |-> TRUE, files |-> With(Without(files, file), destination, files[file])]

\* What one drop did: whether move_ was called, whether AppMsg::Error was
\* emitted, and the disk afterwards.
Dropped(moving, error, files) == [moving |-> moving, error |-> error, files |-> files]

\* filesystem::handle_drop (filesystem.rs:8-28).
handle_drop_always_moves(files, file, destination) ==
    LET destination_file == child(destination, basename(file))
        res == gio_move(files, file, destination_file)
    IN  Dropped(TRUE, ~res.ok, res.files)

handle_drop(files, file, destination) ==
    LET destination_file == child(destination, basename(file)) IN
    IF destination_file = file
        THEN Dropped(FALSE, FALSE, files)
    ELSE LET res == gio_move(files, file, destination_file)
         IN  Dropped(TRUE, ~res.ok, res.files)

\* The connect_drop closure of the older pane (directory_list.rs:548-560).
connect_drop(files, file, dir) ==
    LET destination == child(dir, basename(file))
        res == gio_move(files, file, destination)
    IN  Dropped(TRUE, ~res.ok, res.files)

\* The connect_value_notify closure of new_drop_target_for_dir
\* (component/directory_list.rs:685-695): TRUE when the drop is rejected.
value_notify(file, dir) == has_parent(file) /\ parent(file) = dir

\* The directories whose panes a file can be dropped on.
DropDirs ==
    { Loc("file", <<"home">>), Loc("file", <<"home", "bob">>) }

StoreOthersUnchanged == UNCHANGED <<app_vars, fp_vars, ops_vars, ui_vars>>

\* The trash:/// items that are still on disk: an item moved out of the
\* trash loses its trash::orig-path.
StillInTrash(items, files) ==
    [t \in DOMAIN items \cap DOMAIN files |-> items[t]]

\* A file is dropped on the pane listing dir.  The value is loaded and
\* notified before the drop signal, and a rejected drop emits no drop signal.
DropOnPane ==
    \E file \in DOMAIN on_disk, dir \in DropDirs,
       variant \in {"component::directory_list", "directory_list"} :
        LET rejected == value_notify(file, dir)
            out == IF rejected THEN Dropped(FALSE, FALSE, on_disk)
                   ELSE IF variant = "directory_list"
                       THEN connect_drop(on_disk, file, dir)
                   ELSE handle_drop(on_disk, file, dir)
        IN  /\ on_disk' = out.files
            /\ store_handled' =
                  [op |-> "drop", target |-> variant, file |-> file,
                   destination |-> dir, origin |-> file,
                   content |-> on_disk[file],
                   before |-> on_disk, rejected |-> rejected,
                   moving |-> out.moving, ok |-> out.moving /\ ~out.error,
                   error |-> out.error]
            /\ in_trash' = StillInTrash(in_trash, out.files)
            /\ StoreOthersUnchanged

\* A file is dropped on a place of the sidebar
\* (component/places_sidebar.rs:295-310): no value_notify closure.
DropOnPlace ==
    \E file \in DOMAIN on_disk, destination \in Places :
        LET out == handle_drop(on_disk, file, destination)
        IN  /\ on_disk' = out.files
            /\ store_handled' =
                  [op |-> "drop", target |-> "places_sidebar", file |-> file,
                   destination |-> destination, origin |-> file,
                   content |-> on_disk[file],
                   before |-> on_disk, rejected |-> FALSE,
                   moving |-> out.moving, ok |-> out.moving /\ ~out.error,
                   error |-> out.error]
            /\ in_trash' = StillInTrash(in_trash, out.files)
            /\ StoreOthersUnchanged

\* The name gio gives a trashed file in trash:///: its basename, or the
\* basename with a number when the trash already holds that name.
trash_name(files, f) ==
    IF Loc("trash", <<basename(f)>>) \notin DOMAIN files
        THEN Loc("trash", <<basename(f)>>)
    ELSE Loc("trash", <<basename(f) \o ".2">>)

\* gio::File::trash_future: only a local file can be trashed; the file goes
\* to trash:/// and its path is kept as trash::orig-path.
gio_trash(files, items, f) ==
    LET t == trash_name(files, f) IN
    IF f \notin DOMAIN files \/ f.scheme # "file" \/ t \in DOMAIN files
        THEN [ok |-> FALSE, files |-> files, items |-> items]
    ELSE [ok |-> TRUE,
          files |-> With(Without(files, f), t, files[f]),
          items |-> [u \in DOMAIN items \cup {t} |->
                        IF u = t THEN [orig_path |-> f.path, origin |-> f,
                                       content |-> files[f]]
                        ELSE items[u]]]

\* One future of TrashSelection (component/directory_list.rs:343-348), for
\* one selected entry of a pane.
TrashEntry ==
    \E f \in DOMAIN on_disk :
        LET res == gio_trash(on_disk, in_trash, f) IN
        /\ on_disk' = res.files
        /\ in_trash' = res.items
        /\ store_handled' =
              [op |-> "trash", target |-> "component::directory_list",
               file |-> f, destination |-> trash_name(on_disk, f),
               origin |-> f, content |-> on_disk[f], before |-> on_disk,
               rejected |-> FALSE, moving |-> FALSE, ok |-> res.ok,
               error |-> ~res.ok]
        /\ StoreOthersUnchanged

\* gio::File::for_parse_name of an absolute path: the local file at it.
for_parse_name(path) == Loc("file", path)

\* The destination RestoreSelectionFromTrash computes for one entry
\* (component/directory_list.rs:393-396).
original_path_by_name(item, file) == child(Loc("file", <<"home">>), basename(file))

original_path(item, file) == for_parse_name(item.orig_path)

\* One future of RestoreSelectionFromTrash
\* (component/directory_list.rs:376-399) whose query succeeds, with the move
\* ops::move_ makes (ops.rs:67-71) run to its end.
RestoreEntry ==
    \E file \in DOMAIN in_trash :
        LET destination == original_path(in_trash[file], file)
            res == gio_move(on_disk, file, destination)
        IN  /\ on_disk' = res.files
            /\ in_trash' = StillInTrash(in_trash, res.files)
            /\ store_handled' =
                  [op |-> "restore", target |-> "component::directory_list",
                   file |-> file, destination |-> destination,
                   origin |-> in_trash[file].origin,
                   content |-> in_trash[file].content, before |-> on_disk,
                   rejected |-> FALSE, moving |-> TRUE, ok |-> res.ok,
                   error |-> ~res.ok]
            /\ StoreOthersUnchanged

NextStore ==
    \/ DropOnPane
    \/ DropOnPlace
    \/ TrashEntry
    \/ RestoreEntry

\* The disk on its own, under an application that stays in its initial
\* state.
InitStoreOnly ==
    /\ InitAppWith(Loc("file", <<"home">>))
    /\ InitPreview
    /\ disk = Disk(TRUE, 10, 0)
    /\ InitOps
    /\ InitStore
    /\ InitUi

SpecStore == InitStoreOnly /\ [][NextStore]_vars

---------------------------------------------------------------------------
(* The dialog that mounts a server: Mount (component/mount.rs).  Every     *)
(* Accept spawns a task that waits for its mount operation and reports     *)
(* into the dialog's input channel, mnt_inbox.  by is history: 0 for a     *)
(* message that comes from the user, else the task that caused it.         *)

MountMsgMount == [type |-> "Mount", by |-> 0]
Response(response) == [type |-> "Response", response |-> response, by |-> 0]
MountMsgClose(by) == [type |-> "Close", by |-> by]
Pulse(by) == [type |-> "Pulse", by |-> by]
Finish(by) == [type |-> "Finish", by |-> by]

\* The results of mount_enclosing_volume_future: Ok, an error gio has
\* shown to the user already, and any other error.
MountResults == {"Ok", "FailedHandled", "Failed"}

\* GResultExt::filter_handled: util.rs:21-33.
filter_handled(res) == IF res = "FailedHandled" THEN "Ok" ELSE res

\* Abortable::poll: a future whose handle was aborted resolves to
\* Err(Aborted), whatever the mount operation has come to.
Abortable(task, res) == IF task.aborted THEN "Aborted" ELSE res

\* The user opens the dialog, or presses one of its buttons, or closes its
\* window; the buttons and the window exist while the dialog is shown
\* (component/mount.rs:60-63, component/mount.rs:76-87).
UserSends ==
    /\ Len(mnt_inbox) < MaxMntInbox
    /\ \E msg \in { MountMsgMount, Response("Accept"), Response("Cancel"),
                   MountMsgClose(0) } :
        /\ msg.type # "Mount" => mnt_visible
        /\ mnt_inbox' = Append(mnt_inbox, msg)
    /\ UNCHANGED <<mnt_visible, abort_handle, mounts, mnt_handled>>
    /\ UNCHANGED <<app_vars, fp_vars, ops_vars, store_vars, rename_vars>>

\* History kept on taking a message: the message, and for every task that
\* has ended whether the user has acted on the dialog since.
MntTake(tasks) ==
    LET msg == Head(mnt_inbox) IN
    [i \in 1..Len(tasks) |->
        [tasks[i] EXCEPT !.user_acted =
            @ \/ (tasks[i].pc = "done" /\ msg.by = 0 /\ msg.type # "Finish")]]

\* MountMsg::Mount: component/mount.rs:111-113.
UpdateMount ==
    /\ mnt_inbox # <<>>
    /\ Head(mnt_inbox).type = "Mount"
    /\ mnt_visible' = TRUE
    /\ mnt_inbox' = Tail(mnt_inbox)
    /\ mounts' = MntTake(mounts)
    /\ mnt_handled' = Head(mnt_inbox)
    /\ UNCHANGED abort_handle
    /\ UNCHANGED <<app_vars, fp_vars, ops_vars, store_vars, rename_vars>>

\* Option::replace on abort_handle: component/mount.rs:125.  The handle
\* that was held is dropped, which aborts nothing.
replace_handle(tasks, handle) == tasks

\* A task as spawned by the Accept arm: component/mount.rs:132-153.
\* outcome, closes, finishes and errors keep what the task did at its end;
\* visible_at and user_acted are history.
NewMount ==
    [pc |-> "running", aborted |-> FALSE, outcome |-> "none", closes |-> 0,
     finishes |-> 0, errors |-> 0, visible_at |-> FALSE,
     user_acted |-> FALSE]

\* MountMsg::Response(Accept): component/mount.rs:114-154.
UpdateAccept ==
    /\ mnt_inbox # <<>>
    /\ Head(mnt_inbox) = Response("Accept")
    /\ Len(mounts) < MaxMounts
    /\ mounts' = Append(replace_handle(MntTake(mounts), abort_handle), NewMount)
    /\ abort_handle' = Len(mounts) + 1
    /\ mnt_inbox' = Tail(mnt_inbox)
    /\ mnt_handled' = Head(mnt_inbox)
    /\ UNCHANGED mnt_visible
    /\ UNCHANGED <<app_vars, fp_vars, ops_vars, store_vars, rename_vars>>

\* MountMsg::Response(Cancel) and MountMsg::Close:
\* component/mount.rs:155-162.
UpdateCancelOrClose ==
    /\ mnt_inbox # <<>>
    /\ \/ Head(mnt_inbox) = Response("Cancel")
       \/ Head(mnt_inbox).type = "Close"
    /\ mnt_inbox' = Append(Tail(mnt_inbox), Finish(Head(mnt_inbox).by))
    /\ mnt_visible' = FALSE
    /\ mounts' = MntTake(mounts)
    /\ mnt_handled' = Head(mnt_inbox)
    /\ UNCHANGED abort_handle
    /\ UNCHANGED <<app_vars, fp_vars, ops_vars, store_vars, rename_vars>>

\* AbortHandle::abort on the handle taken out of abort_handle.
abort_mount(tasks, handle) ==
    IF handle = 0 THEN tasks
    ELSE [tasks EXCEPT ![handle].aborted = TRUE]

\* MountMsg::Finish: component/mount.rs:163-169.
UpdateFinish ==
    /\ mnt_inbox # <<>>
    /\ Head(mnt_inbox).type = "Finish"
    /\ mounts' = abort_mount(MntTake(mounts), abort_handle)
    /\ abort_handle' = 0
    /\ mnt_inbox' = Tail(mnt_inbox)
    /\ mnt_handled' = Head(mnt_inbox)
    /\ UNCHANGED mnt_visible
    /\ UNCHANGED <<app_vars, fp_vars, ops_vars, store_vars, rename_vars>>

\* MountMsg::Pulse: component/mount.rs:170.
UpdatePulse ==
    /\ mnt_inbox # <<>>
    /\ Head(mnt_inbox).type = "Pulse"
    /\ mnt_inbox' = Tail(mnt_inbox)
    /\ mounts' = MntTake(mounts)
    /\ mnt_handled' = Head(mnt_inbox)
    /\ UNCHANGED <<mnt_visible, abort_handle>>
    /\ UNCHANGED <<app_vars, fp_vars, ops_vars, store_vars, rename_vars>>

\* The timeout of a task's select! comes first: component/mount.rs:135-137.
MountPulses ==
    /\ Len(mnt_inbox) < MaxMntInbox
    /\ \E i \in 1..Len(mounts) :
        /\ mounts[i].pc = "running"
        /\ mnt_inbox' = Append(mnt_inbox, Pulse(i))
    /\ UNCHANGED <<mnt_visible, abort_handle, mounts, mnt_handled>>
    /\ UNCHANGED <<app_vars, fp_vars, ops_vars, store_vars, rename_vars>>

\* What a task sends for the result of its mount future:
\* component/mount.rs:139-147.
mount_outcome(res, i) ==
    IF res \in {"Ok", "Aborted"}
        THEN [input |-> <<MountMsgClose(i)>>, errors |-> 0]
        ELSE [input |-> <<Finish(i)>>, errors |-> 1]

\* The mount future of a task resolves and the task leaves its loop:
\* component/mount.rs:138-150.
MountResolves ==
    /\ Len(mnt_inbox) < MaxMntInbox
    /\ \E i \in 1..Len(mounts), r \in MountResults :
        /\ mounts[i].pc = "running"
        /\ LET res == Abortable(mounts[i], filter_handled(r))
               did == mount_outcome(res, i)
           IN  /\ mnt_inbox' = mnt_inbox \o did.input
               /\ mounts' = [mounts EXCEPT ![i] =
                    [@ EXCEPT !.pc = "done",
                              !.outcome = IF res = "Aborted" THEN res ELSE r,
                              !.closes = Len(SelectSeq(did.input,
                                            LAMBDA m : m.type = "Close")),
                              !.finishes = Len(SelectSeq(did.input,
                                            LAMBDA m : m.type = "Finish")),
                              !.errors = did.errors,
                              !.visible_at = mnt_visible]]
    /\ UNCHANGED <<mnt_visible, abort_handle, mnt_handled>>
    /\ UNCHANGED <<app_vars, fp_vars, ops_vars, store_vars, rename_vars>>

NextMount ==
    \/ UserSends
    \/ UpdateMount
    \/ UpdateAccept
    \/ UpdateCancelOrClose
    \/ UpdateFinish
    \/ UpdatePulse
    \/ MountPulses
    \/ MountResolves

\* The mount dialog on its own.
InitMountOnly ==
    /\ InitAppWith(Loc("file", <<"home">>))
    /\ InitPreview
    /\ disk = Disk(TRUE, 10, 0)
    /\ InitOps
    /\ InitStore
    /\ InitUi

SpecMount == InitMountOnly /\ [][NextMount]_vars

---------------------------------------------------------------------------
(* The rename popover of one list item view of a pane: the Rename action   *)
(* of register_entry_context_actions (component/directory_list.rs) and the *)
(* activate handlers it connects to the popover's entry.  A file is the    *)
(* name of an entry of the directory listed.                               *)

\* The targets of the Rename item of the context menu
\* (component/directory_list.rs:773-776): an entry of the directory, or one
\* that has vanished since the menu was built.
RenameTargets == names \cup {"gone"}

\* What the user may type into the entry.
TypedNames == {"", "bob", "carol"}

\* Variant: disconnecting a handler has no effect.
signal_handler_disconnect_ignored(hs, id) == hs

\* glib::signal_handler_disconnect: component/directory_list.rs:591-593.
signal_handler_disconnect(hs, id) == { h \in hs : h.id # id }

\* The Rename action: component/directory_list.rs:586-635.
RenameAction ==
    /\ signal_ids < MaxRenames
    /\ \E uri \in RenameTargets :
        LET left == IF previous_handler_id # 0
                        THEN signal_handler_disconnect(handlers,
                                                       previous_handler_id)
                        ELSE handlers
            signal_handler_id == signal_ids + 1
        IN  /\ entry_text' = IF uri \in names THEN uri ELSE entry_text
            /\ handlers' = left \cup {[id |-> signal_handler_id, file |-> uri]}
            /\ signal_ids' = signal_handler_id
            /\ previous_handler_id' = signal_handler_id
            /\ popover' = TRUE
            /\ rename_handled' =
                [type |-> "Rename",
                 targets |-> Append(rename_handled.targets, uri),
                 runs |-> <<>>]
    /\ UNCHANGED names
    /\ UNCHANGED <<app_vars, fp_vars, ops_vars, store_vars, mount_vars>>

\* The user edits the text of the entry of the popover.
TypeName ==
    /\ popover
    /\ \E text \in TypedNames :
        /\ text # entry_text
        /\ entry_text' = text
    /\ UNCHANGED <<names, handlers, previous_handler_id, signal_ids, popover,
                   rename_handled>>
    /\ UNCHANGED <<app_vars, fp_vars, ops_vars, store_vars, mount_vars>>

\* The popover is closed without a confirmation (gtk::Popover autohide).
Dismiss ==
    /\ popover
    /\ popover' = FALSE
    /\ UNCHANGED <<names, handlers, previous_handler_id, signal_ids,
                   entry_text, rename_handled>>
    /\ UNCHANGED <<app_vars, fp_vars, ops_vars, store_vars, mount_vars>>

\* gio::File::set_display_name on the entries of the directory.
set_display_name(ns, file, new_name) ==
    IF file \notin ns THEN [ok |-> FALSE, names |-> ns]
    ELSE IF new_name = file THEN [ok |-> TRUE, names |-> ns]
    ELSE IF new_name \in ns THEN [ok |-> FALSE, names |-> ns]
    ELSE [ok |-> TRUE, names |-> (ns \ {file}) \cup {new_name}]

\* One activate handler: component/directory_list.rs:606-630.
rename_handler(ns, file, new_name) ==
    IF new_name = "" THEN [ok |-> FALSE, names |-> ns]
    ELSE set_display_name(ns, file, new_name)

\* The emission of activate: every connected handler runs, in the order of
\* connection.
RECURSIVE emit_activate(_, _, _, _, _)
emit_activate(id, last, hs, ns, text) ==
    IF id > last THEN [names |-> ns, runs |-> <<>>]
    ELSE LET connected == { h \in hs : h.id = id } IN
         IF connected = {} THEN emit_activate(id + 1, last, hs, ns, text)
         ELSE LET h == CHOOSE c \in connected : TRUE
                  res == rename_handler(ns, h.file, text)
                  rest == emit_activate(id + 1, last, hs, res.names, text)
              IN  [names |-> rest.names,
                   runs |-> <<[file |-> h.file, new_name |-> text,
                               ok |-> res.ok]>> \o rest.runs]

\* The user confirms: Enter in the entry, or the Rename button of the
\* popover (component/directory_list.rs:459-466), emits activate; every
\* handler that ran has popped the popover down.
Activate ==
    /\ popover
    /\ LET did == emit_activate(1, signal_ids, handlers, names, entry_text)
       IN  /\ names' = did.names
           /\ popover' = (did.runs = <<>>)
           /\ rename_handled' = [rename_handled EXCEPT !.type = "activate",
                                                       !.runs = did.runs]
    /\ UNCHANGED <<handlers, previous_handler_id, signal_ids, entry_text>>
    /\ UNCHANGED <<app_vars, fp_vars, ops_vars, store_vars, mount_vars>>

NextRename ==
    \/ RenameAction
    \/ TypeName
    \/ Dismiss
    \/ Activate

\* The rename popover on its own.
InitRenameOnly ==
    /\ InitAppWith(Loc("file", <<"home">>))
    /\ InitPreview
    /\ disk = Disk(TRUE, 10, 0)
    /\ InitOps
    /\ InitStore
    /\ InitUi

SpecRename == InitRenameOnly /\ [][NextRename]_vars

---------------------------------------------------------------------------
(* Properties of the pane stack *)

HandledFiles == handled.msg.type = "NewSelectionFiles"
HandledNone == handled.msg.type = "NewSelectionNone"
HandledNewRoot == handled.msg.type = "NewRoot"

\* a is t or an ancestor of t
IsAncestorOrEqual(a, t) ==
    /\ a.scheme = t.scheme
    /\ Len(a.path) <= Len(t.path)
    /\ SubSeq(t.path, 1, Len(a.path)) = a.path

Deepest(dirs) == dirs[Len(dirs)]

\* The directory the deepest pane should list once sel has been handled.
ExpectedDeepest(sel) ==
    IF query_file_type(Target(sel)) = "Directory"
        THEN Target(sel)
        ELSE parent(Target(sel))

\* C1: the pane stack holds at least one pane in every reachable state.
StackNeverEmpty == directories # <<>>

\* C3: once a NewSelection(Files) has been handled, the deepest pane lists the
\* target if it is a directory and the target's parent otherwise.
DeepestPaneIsTarget ==
    (HandledFiles /\ ~panicked) =>
        /\ directories # <<>>
        /\ Deepest(directories) = ExpectedDeepest(handled.msg)

\* C4: each pane after the first lists a direct child of the directory listed
\* by the pane before it.
AdjacentPanesAreParentAndChild ==
    \A i \in 1..(Len(directories) - 1) :
        /\ has_parent(directories[i + 1])
        /\ parent(directories[i + 1]) = directories[i]

\* C4 witness: a selection was handled by popping and pushing, and the stack
\* holds a root pane and a pane under it.
AdjacentPanesWitness ==
    /\ HandledFiles
    /\ handled.ops = <<"pop", "push">>
    /\ Len(directories) >= 2

\* C5: handling a NewSelection never removes the root pane: the pane that was
\* first before the event is still first after it, also when handling fails.
SelectionKeepsRootPane ==
    ((HandledFiles \/ HandledNone) /\ handled.before # <<>>) =>
        /\ directories # <<>>
        /\ directories[1] = handled.before[1]

\* C6: once NewRoot(location) has been handled the stack is <<location>> and
\* the recorded root is location.
NewRootResetsStack ==
    HandledNewRoot =>
        /\ directories = <<handled.msg.root>>
        /\ root = handled.msg.root

\* C6 witness: NewRoot was handled on a stack of several panes under another
\* root.
NewRootWitness ==
    /\ HandledNewRoot
    /\ Len(handled.before) >= 2
    /\ handled.before[1] # handled.msg.root

\* C7: handling NewSelection(None) leaves the pane stack as it was and sends
\* the file preview exactly one Hide.
EmptySelectionKeepsStack ==
    HandledNone =>
        /\ directories = handled.before
        /\ handled.emitted = <<Hide>>

\* C7 witness: an empty selection was handled while several panes were open.
EmptySelectionWitness ==
    /\ HandledNone
    /\ Len(handled.before) >= 2

\* C8: the walk pops before it pushes, and every pane listing the target or
\* an ancestor of the target is left in place.
WalkPopsBeforePushes ==
    (HandledFiles /\ ~panicked) =>
        /\ \A i, j \in 1..Len(handled.ops) :
              (i < j /\ handled.ops[i] = "push") => handled.ops[j] = "push"
        /\ \A i \in 1..Len(handled.before) :
              IsAncestorOrEqual(handled.before[i], Target(handled.msg)) =>
                  /\ i <= Len(directories)
                  /\ directories[i] = handled.before[i]

\* C8 witness: <</home, /home/alice>> with the single file
\* /home/bob/report selected ends as <</home, /home/bob>>.
WalkExampleWitness ==
    /\ HandledFiles
    /\ handled.before = <<Loc("file", <<"home">>), Loc("file", <<"home", "alice">>)>>
    /\ handled.msg.files = {Loc("file", <<"home", "bob", "report">>)}
    /\ handled.ops = <<"pop", "push">>
    /\ directories = <<Loc("file", <<"home">>), Loc("file", <<"home", "bob">>)>>

\* C9: a NewSelection(Files) whose target lies outside the tree of the root
\* pane makes handling fail, and no pane is pushed or popped.
UnrelatedSelectionFails ==
    (/\ HandledFiles
     /\ handled.before # <<>>
     /\ ~IsAncestorOrEqual(handled.before[1], Target(handled.msg))) =>
        /\ panicked
        /\ directories = handled.before

\* The program was launched with the path of an entry that is not a
\* directory and has handled no event since.
LaunchedWithFile ==
    /\ handled.msg.type = "Launch"
    /\ query_file_type(handled.msg.file) # "Directory"

\* C30: launched with the path of a file, the program starts with the one
\* pane of the file's parent and with the file selected in it.
LaunchWithFileSelectsIt ==
    LaunchedWithFile =>
        /\ directories = <<parent(handled.msg.file)>>
        /\ root = parent(handled.msg.file)
        /\ handled.msg.selected = {handled.msg.file}

\* The diff the handler of the last NewSelection(Files) computed: lib.rs:328.
HandledDiff ==
    diff_paths(uri_path(Target(handled.msg)), uri_path(Deepest(handled.before)))

\* The last event handled was a NewSelection(Files), on a stack with a pane.
HandledFilesOnStack == HandledFiles /\ handled.before # <<>>

\* C26: a NewSelection(Files) whose target is the directory of the deepest
\* pane yields an empty diff: no pane is popped or pushed and the stack is
\* as it was.
TargetAtDeepestKeepsStack ==
    (HandledFilesOnStack /\ Target(handled.msg) = Deepest(handled.before)) =>
        /\ HandledDiff = Some(<<>>)
        /\ handled.ops = <<>>
        /\ directories = handled.before

\* C26 witness: the directory the deepest of two panes lists was selected
\* alone in the pane before it.
TargetAtDeepestWitness ==
    /\ HandledFilesOnStack
    /\ Len(handled.before) = 2
    /\ handled.msg.files = {Deepest(handled.before)}
    /\ handled.msg.parent = handled.before[1]

\* Pane i of the stack before the last event lists the event's target, a
\* proper ancestor of the directory of the deepest pane.
TargetOpenAbove(i) ==
    /\ i < Len(handled.before)
    /\ handled.before[i] = Target(handled.msg)
    /\ IsAncestorOrEqual(Target(handled.msg), Deepest(handled.before))
    /\ Target(handled.msg) # Deepest(handled.before)

Depth(f) == Len(f.path)

\* C27: when the target is a proper ancestor of the deepest pane's directory
\* and is open in the stack, the diff holds only Ascend steps, as many as
\* the two depths differ by, and the stack is cut so that the target's pane
\* is the deepest.
TargetAboveTruncatesStack ==
    \A i \in 1..Len(handled.before) :
        (HandledFilesOnStack /\ TargetOpenAbove(i)) =>
            LET n == Depth(Deepest(handled.before)) - Depth(Target(handled.msg)) IN
            /\ HandledDiff = Some(ParentDirs(n))
            /\ handled.ops = [k \in 1..n |-> "pop"]
            /\ directories = SubSeq(handled.before, 1, i)
            /\ ~panicked

\* C27 witness: two panes were cut at once.
TargetAboveWitness ==
    /\ HandledFilesOnStack
    /\ TargetOpenAbove(1)
    /\ Len(handled.before) = 3
    /\ directories = <<handled.before[1]>>

\* The last event selected the single entry c of the deepest pane.
SingleEntryOfDeepest(c) ==
    /\ HandledFilesOnStack
    /\ handled.msg.files = {c}
    /\ handled.msg.parent = Deepest(handled.before)
    /\ has_parent(c)
    /\ parent(c) = Deepest(handled.before)

\* C28: selecting a single entry c of the deepest pane yields the diff of one
\* Descend step named after c; a directory c gets exactly one new pane,
\* listing c, and any other c leaves the stack as it was.
SingleEntryDescendsOnce ==
    \A c \in Directories \cup RegularFiles :
        SingleEntryOfDeepest(c) =>
            /\ HandledDiff = Some(<<basename(c)>>)
            /\ ~panicked
            /\ IF query_file_type(c) = "Directory"
                  THEN /\ handled.ops = <<"push">>
                       /\ directories = Append(handled.before, c)
                  ELSE /\ handled.ops = <<>>
                       /\ directories = handled.before

\* C28 witness: a directory was selected in the second pane, and a regular
\* file can be selected in the third.
SingleEntryWitness ==
    /\ SingleEntryOfDeepest(Loc("file", <<"home", "alice", "bob">>))
    /\ Len(directories) = 3
    /\ \E k \in 1..Len(inbox) :
          /\ inbox[k].type = "NewSelectionFiles"
          /\ inbox[k].files = {Loc("file", <<"home", "notes">>)}

\* The last event handled was the result or notification of a background
\* task.
HandledNotification == handled.msg \in Notifications

\* C29: handling an Error, a Progress or a Toast leaves the pane stack and
\* the root as they were, and whenever the pane stack changes the step is the
\* handling of a NewSelection(Files) or of a NewRoot.
OnlySelectionAndRootChangeStack ==
    /\ [](HandledNotification =>
            /\ directories = handled.before
            /\ handled.ops = <<>>
            /\ ~panicked)
    /\ [][directories' # directories =>
            handled'.msg.type \in {"NewSelectionFiles", "NewRoot"}]_vars

\* C29 witness: a notification was handled while three panes were open and
\* a selection was waiting.
NotificationWitness ==
    /\ HandledNotification
    /\ handled.msg.type = "Toast"
    /\ Len(directories) = 3
    /\ inbox # <<>>
    /\ inbox[1].type = "NewSelectionFiles"

---------------------------------------------------------------------------
(* Properties of the preview resolver *)

HandledFileInfoLoaded == fp_handled.msg.type = "FileInfoLoaded"

Running == { i \in 1..Len(resolutions) : resolutions[i].state = "running" }

\* C2: the result the preview model takes, info or error, is the result of
\* the resolution started last: no result of a resolution is taken once a
\* later resolution has been started.
OnlyLatestResolutionTaken ==
    HandledFileInfoLoaded => fp_handled.msg.resolution = fp_handled.started

\* C10: at most one resolution is running, neither aborted nor delivered.
AtMostOneResolutionRunning == Cardinality(Running) <= 1

\* The widget is shown while info is not empty: file_preview.rs:208.
visible == info # {}

\* The selection of the resolution whose result was handled last.
HandledSelection == resolutions[fp_handled.msg.resolution].sel

SingleDirectory(sel) ==
    /\ Cardinality(sel.files) = 1
    /\ \A f \in sel.files : query_file_type(f) = "Directory"

SinglePlainText(sel) ==
    /\ Cardinality(sel.files) = 1
    /\ \A f \in sel.files :
          query_file_type(f) = "Regular" /\ is_plain_text(Mime(f))

\* C11: once a Hide has been handled and no later NewSelection has been
\* handled or is waiting, the preview is hidden: the result of a resolution
\* started before the Hide does not show it again.
HideKeepsPreviewHidden ==
    (fp_handled.hidden /\ NewSelectionsWaiting = 0) => ~visible

SingleDirectoryEndsHidden ==
    (HandledFileInfoLoaded /\ SingleDirectory(HandledSelection)) =>
        /\ fp_handled.msg.ok
        /\ fp_handled.msg.info = {}
        /\ ~visible
        /\ preview = fp_handled.preview_before

\* C13 witness: the result for a single directory was handled while a text
\* preview was up.
SingleDirectoryWitness ==
    /\ HandledFileInfoLoaded
    /\ SingleDirectory(HandledSelection)
    /\ fp_handled.preview_before = "Text"

\* C14: for a single entry that is not a directory, the preview is Text only
\* if the MIME type is plain-text-like and the bytes read hold no NUL byte;
\* the bytes read are a prefix of the file of at most PREVIEW_BUFFER_SIZE
\* bytes; a plain-text-like entry whose prefix holds a NUL byte is shown as
\* an icon.
TextOnlyForCleanPlainText ==
    (HandledFileInfoLoaded /\ fp_handled.msg.ok /\ Cardinality(info) = 1) =>
        \A f \in info :
            LET b == f.contents.bytes IN
            /\ preview = "Text" =>
                  /\ is_plain_text(f.mime)
                  /\ f.contents.some
                  /\ b.nul_at = 0
            /\ f.contents.some =>
                  /\ b.len <= PREVIEW_BUFFER_SIZE
                  /\ b.len <= disk.size
                  /\ b.nul_at # 0 => b.nul_at = disk.nul_at
                  /\ disk.nul_at \in 1..b.len => b.nul_at = disk.nul_at
            /\ (is_plain_text(f.mime) /\ f.contents.some /\ b.nul_at # 0) =>
                  preview = "Icon"

\* C14 witness: a text file longer than the buffer whose first NUL byte is
\* the last byte of the prefix is shown as an icon.
NulInPrefixWitness ==
    /\ HandledFileInfoLoaded
    /\ fp_handled.msg.ok
    /\ SinglePlainText(HandledSelection)
    /\ disk = Disk(TRUE, 5000, PREVIEW_BUFFER_SIZE)
    /\ preview = "Icon"

\* C15: when the metadata query of a selected entry fails, or the read of
\* the contents of a single plain-text-like entry fails, the result handled
\* is an error and the preview is Error.
QueryOrReadFailureEndsInError ==
    (/\ HandledFileInfoLoaded
     /\ \/ \E f \in HandledSelection.files : query_file_type(f) = "Unknown"
        \/ SinglePlainText(HandledSelection) /\ ~disk.readable) =>
        /\ ~fp_handled.msg.ok
        /\ preview = "Error"

\* C16: for a selection of two or more entries no contents are read, no
\* single-entry preview is chosen, and the texts give the number of entries
\* and a number of documents and of folders that add up to it.
MultipleSelectionIsAggregate ==
    (/\ HandledFileInfoLoaded
     /\ fp_handled.msg.ok
     /\ Cardinality(HandledSelection.files) >= 2) =>
        LET n == Cardinality(HandledSelection.files)
            folders == Cardinality({ f \in HandledSelection.files :
                                        query_file_type(f) = "Directory" })
        IN  /\ \A f \in info : ~f.contents.some
            /\ preview = "Icon"
            /\ file_name_text = <<ToString(n), "items">>
            /\ file_type_text = format_counts(n - folders, folders)

\* C16 witness: a directory and a text file were selected together.
MultipleSelectionWitness ==
    /\ HandledFileInfoLoaded
    /\ fp_handled.msg.ok
    /\ Cardinality(HandledSelection.files) = 2
    /\ file_type_text = <<"1", "document", "1", "folder">>

\* C34: whenever the result handled last is an error, the preview is
\* visible and shows the Error page, and the texts of an earlier selection
\* are not shown beside it.
ErrorResultIsShown ==
    (HandledFileInfoLoaded /\ ~fp_handled.msg.ok) =>
        /\ visible
        /\ preview = "Error"
        /\ file_name_text = <<>>

\* The last TextureLoaded handled found the image it was loaded for still
\* previewed.
StillPreviewed ==
    /\ tx_handled.preview = "Image"
    /\ tx_handled.payload.file = tx_handled.file

\* C33: a texture loaded for a file is displayed only if the preview is
\* still Image of that file when its TextureLoaded is handled; a texture
\* that arrives for any other preview, and a failed load, leave the
\* picture as it was.
TextureShownOnlyIfStillPreviewed ==
    tx_handled # NoTexture =>
        /\ tx_handled.displayed <=> (tx_handled.ok /\ StillPreviewed)
        /\ picture = IF tx_handled.ok /\ StillPreviewed
                         THEN tx_handled.file
                         ELSE tx_handled.picture_before

\* The texture of the photo arrives while the logo is previewed and shown:
\* it is discarded and the picture keeps the logo.
StaleTextureWitness ==
    /\ tx_handled.ok
    /\ tx_handled.file = Loc("sftp", <<"photo">>)
    /\ tx_handled.preview = "Image"
    /\ tx_handled.payload.file = Loc("sftp", <<"logo">>)
    /\ tx_handled.picture_before = Loc("sftp", <<"logo">>)
    /\ ~tx_handled.displayed
    /\ picture = Loc("sftp", <<"logo">>)

\* C35: the page index of a PDF preview of n >= 1 pages stays in 0..n-1;
\* Previous on the first page and Next on the last page leave it as it was,
\* and a page change handled while the preview is not a PDF changes
\* neither the preview nor what it holds.
PdfPageStaysInRange ==
    /\ (preview = "Pdf" /\ payload.n_pages >= 1) =>
            payload.page_index \in 0..(payload.n_pages - 1)
    /\ fp_handled.msg.type = "ChangePdfPage" =>
        LET before == fp_handled.payload_before
            change == fp_handled.msg.change
        IN  /\ preview = fp_handled.preview_before
            /\ payload.n_pages = before.n_pages
            /\ fp_handled.preview_before # "Pdf" => payload = before
            /\ (change = "Previous" /\ before.page_index = 0) =>
                    payload = before
            /\ (change = "Next" /\ before.page_index = before.n_pages - 1) =>
                    payload = before

\* Next is handled on the last page of the report and the page stays.
PdfLastPageWitness ==
    /\ fp_handled.msg = ChangePdfPage("Next")
    /\ fp_handled.preview_before = "Pdf"
    /\ fp_handled.payload_before.page_index = fp_handled.payload_before.n_pages - 1
    /\ fp_handled.payload_before.page_index > 0
    /\ payload = fp_handled.payload_before

---------------------------------------------------------------------------
(* Properties of the file operations *)

Failed == { i \in 1..Len(trash.results) : trash.results[i] = "err" }
Succeeded == { i \in 1..Len(trash.results) : trash.results[i] = "ok" }

ErrorsOf(msgs) == SelectSeq(msgs, LAMBDA m : m.type = "Error")
ToastsOf(msgs) == SelectSeq(msgs, LAMBDA m : m.type = "Toast")

\* C17: a trash batch with f failed and s trashed entries sends exactly f
\* error reports, one for each failed entry, and one toast if s >= 1, which
\* names the entry if s = 1 and gives the count s otherwise, and no toast
\* if s = 0; every entry of the batch has had its attempt.
TrashBatchReportsEachOutcome ==
    trash.reported =>
        LET errors == ErrorsOf(trash.report)
            toasts == ToastsOf(trash.report)
            s == Cardinality(Succeeded)
        IN  /\ Failed \cup Succeeded = 1..Len(trash.entries)
            /\ Len(errors) = Cardinality(Failed)
            /\ \A i \in Failed :
                  \E k \in 1..Len(errors) : errors[k].entry = trash.entries[i]
            /\ Len(toasts) = IF s >= 1 THEN 1 ELSE 0
            /\ s = 1 =>
                  \E i \in Succeeded :
                      toasts[1].text = <<trash.entries[i], "moved to trash">>
            /\ s >= 2 =>
                  toasts[1].text = <<ToString(s), "files moved to trash">>

Unrecoverable(i) == restore[i].pc \in {"query failed", "panicked"}
Unfinished(i) == restore[i].pc \in {"query", "moving"}
Started(i) == restore[i].pc \in {"moving", "moved", "move failed"}

\* C18: an entry of a restore batch whose original location cannot be
\* recovered fails alone: every other entry that is not yet restored can
\* still go on, the program has not ended.
RestoreFailuresAreIndividual ==
    \A i, j \in 1..Len(restore) :
        (i # j /\ Unrecoverable(i) /\ Unfinished(j)) => ~crashed

\* Every future of the restore batch has returned, every progress report
\* has been sent on and AppModel has handled every message.
Quiescent ==
    /\ restoring
    /\ ~crashed
    /\ sent = <<>>
    /\ \A i \in 1..Len(restore) :
          /\ ~Unfinished(i)
          /\ restore[i].forwarded = restore[i].current

\* C19: once every move has ended, in success or in failure, and every
\* message has been delivered, no operation is left in the active set.
CompletedOperationsRemoved == Quiescent => progress = <<>>

\* C20: no two moves have the same id, and every TransferNew and every
\* TransferProgress of a move carries the id of that move: a progress
\* report never meets the operation announced for another entry.
TransferIdsStableAndUnique ==
    /\ \A i, j \in 1..Len(restore) :
          (i # j /\ Started(i) /\ Started(j)) => restore[i].id # restore[j].id
    /\ \A k \in 1..Len(sent) :
          sent[k].type \in {"TransferNew", "TransferProgress"} =>
              /\ \E i \in 1..Len(restore) :
                    /\ Started(i)
                    /\ restore[i].entry = sent[k].entry
                    /\ restore[i].id = sent[k].id
              /\ \A c \in 1..Len(progress) :
                    progress[c].id = sent[k].id =>
                        progress[c].description[2] = sent[k].entry

\* C20 witness: two moves run at once and a progress report of the move
\* started second waits in the channel while the first is still shown.
ConcurrentMovesWitness ==
    \E i, j \in 1..Len(restore) :
        /\ i # j
        /\ restore[i].pc = "moving"
        /\ restore[j].pc = "moving"
        /\ restore[i].id < restore[j].id
        /\ \E k \in 1..Len(sent) :
              sent[k].type = "TransferProgress" /\ sent[k].id = restore[j].id
        /\ \E c \in 1..Len(progress) : progress[c].id = restore[i].id

ProgressWaiting(id) ==
    SelectSeq(sent, LAMBDA m : m.type = "TransferProgress" /\ m.id = id)

\* C21: the progress reports of one id wait in AppModel's channel in the
\* order they were made, with current never going down, and none of them is
\* older than the report AppModel handled last for that id.
ProgressReportsInOrder ==
    \A i \in 1..Len(restore) :
        Started(i) =>
            LET waiting == ProgressWaiting(restore[i].id) IN
            /\ \A k, l \in 1..Len(waiting) :
                  k < l => waiting[k].current <= waiting[l].current
            /\ \A c \in 1..Len(progress), k \in 1..Len(waiting) :
                  progress[c].id = restore[i].id =>
                      progress[c].current <= waiting[k].current
            /\ \A k \in 1..Len(waiting) :
                  waiting[k].current = restore[i].forwarded - Len(waiting) + k

\* C21 witness: the second report of a move waits behind a message of
\* another move while the first report has been handled.
ProgressInOrderWitness ==
    \E k, l \in 1..Len(sent), c \in 1..Len(progress) :
        /\ k < l
        /\ sent[l].type = "TransferProgress"
        /\ sent[l].current = 2
        /\ sent[k].entry # sent[l].entry
        /\ progress[c].id = sent[l].id
        /\ progress[c].current = 1
---------------------------------------------------------------------------
(* Properties of the files on disk *)

\* The last operation was a drop of a file on the directory that is its
\* parent.
DroppedOnParent ==
    /\ store_handled.op = "drop"
    /\ has_parent(store_handled.file)
    /\ parent(store_handled.file) = store_handled.destination

TrashThenRestoreRoundTrip ==
    (store_handled.op = "restore" /\ store_handled.ok) =>
        /\ store_handled.origin \in DOMAIN on_disk
        /\ on_disk[store_handled.origin] = store_handled.content
        /\ store_handled.file \notin DOMAIN on_disk

RoundTripWitness ==
    /\ store_handled.op = "restore"
    /\ store_handled.ok
    /\ store_handled.origin = Loc("file", <<"home", "bob", "report">>)
    /\ Loc("trash", <<"notes.2">>) \in DOMAIN in_trash
---------------------------------------------------------------------------
(* Properties of the errors of a move *)

\* The AppMsg::Error values of the move of task i that wait for AppModel.
MoveErrorsWaiting(i) ==
    SelectSeq(sent, LAMBDA m : /\ m.type = "Error"
                               /\ m.by = "move"
                               /\ m.entry = restore[i].entry)

\* C24: a move that ended in failure has had exactly one error sent, which
\* is shown in one alert once AppModel handles it; a move that is running or
\* ended in success has none sent and none shown.
MoveErrorSurfacedOnce ==
    \A i \in 1..Len(restore) :
        /\ restore[i].pc = "move failed" =>
              restore[i].alerts + Len(MoveErrorsWaiting(i)) = 1
        /\ restore[i].pc # "move failed" =>
              restore[i].alerts = 0 /\ MoveErrorsWaiting(i) = <<>>

MoveErrorWitness ==
    \E i, j \in 1..Len(restore) :
        /\ restore[i].pc = "move failed" /\ restore[i].alerts = 1
        /\ restore[i].forwarded = restore[i].current
        /\ restore[j].pc = "moved" /\ restore[j].forwarded = restore[j].total
        /\ sent = <<>>
---------------------------------------------------------------------------
(* Properties of the selections a pane sends *)

FilesWellFormed(msg) ==
    /\ msg.files # {}
    /\ \A f \in msg.files : has_parent(f) /\ parent(f) = msg.parent

\* C25: every Selection::Files a pane has sent names at least one file and
\* only direct children of its parent, and a pane whose selected set is
\* empty sends Selection::None.
SelectionFilesWellFormed ==
    /\ [](\A k \in 1..Len(inbox) :
            inbox[k].type = "NewSelectionFiles" => FilesWellFormed(inbox[k]))
    /\ [][\A i \in 1..Len(directories) :
            SendSelectionOf(i, {}) => inbox'[Len(inbox')] = NewSelectionNone]_vars

SelectionFilesWitness ==
    /\ Len(inbox) = 2
    /\ inbox[1].type = "NewSelectionFiles"
    /\ Cardinality(inbox[1].files) = 2
    /\ inbox[2] = NewSelectionNone
    /\ Len(directories) = 2
---------------------------------------------------------------------------
(* Properties of the order of the messages of a move *)

\* Message m is a progress tick or the error of the move of task i.
OfMove(m, i) ==
    \/ m.type = "TransferProgress" /\ m.id = restore[i].id
    \/ m.type = "Error" /\ m.by = "move" /\ m.entry = restore[i].entry

\* C31: the Transfer::New of a move is sent before every progress tick and
\* before the error of that move: a move that has sent a tick or an error
\* has sent its Transfer::New, and in AppModel's channel no Transfer::New
\* waits behind a tick or an error of its own move.
NewBeforeTicksAndError ==
    \A i \in 1..Len(restore) :
        /\ (restore[i].forwarded > 0 \/ restore[i].pc = "move failed") =>
              restore[i].news = 1
        /\ \A k, l \in 1..Len(sent) :
              (Started(i) /\ OfMove(sent[l], i) /\ k > l) =>
                  ~(sent[k].type = "TransferNew" /\ sent[k].id = restore[i].id)

NewBeforeTicksWitness ==
    /\ Len(sent) = 2
    /\ sent[1].type = "TransferNew"
    /\ sent[2].type = "Error" /\ sent[2].by = "move"
    /\ sent[1].entry = sent[2].entry
    /\ \E i \in 1..Len(restore) : restore[i].pc = "moved" /\ restore[i].forwarded = 2
---------------------------------------------------------------------------
(* Properties of the Progress arm *)

\* The children of a sequence whose id is not id, in order.
OtherThan(children, id) == SelectSeq(children, LAMBDA c : c.id # id)

\* C32: handling a Progress report for an id changes only the current and
\* total counters of the active operation with that id: the sequence of
\* operations keeps its length and order, every other operation is as it
\* was, and a report whose id matches no active operation changes nothing.
ProgressChangesOnlyItsOperation ==
    [][\A p \in ProgressReports :
          UpdateProgressWith(p) =>
              /\ Len(progress') = Len(progress)
              /\ \A i \in 1..Len(progress) :
                    IF progress[i].id = p.id
                        THEN progress'[i] =
                                 [progress[i] EXCEPT !.current = p.current,
                                                     !.total = p.total]
                    ELSE progress'[i] = progress[i]
              /\ OtherThan(progress, p.id) = progress => progress' = progress]_vars

ProgressChangesWitness ==
    /\ Len(progress) = 3
    /\ progress[1] = init_model(TransferNew(0, "alice"))
    /\ progress[2].current = 2 /\ progress[2].total = 2
    /\ progress[3].current = 1 /\ progress[3].total = 2
\* No Toast stands before an Error in a sequence of AppMsg values.
ToastAfterErrors(msgs) ==
    \A k, l \in 1..Len(msgs) :
        (k < l /\ msgs[k].type = "Toast") => msgs[l].type # "Error"

\* C38: for one trash batch, nothing is reported while the trash attempt
\* of some entry is still pending, and the success toast, if there is one,
\* is sent after every error report of the batch.
TrashReportedAfterAllAttempts ==
    trash.variant # "idle" =>
        /\ (\E i \in 1..Len(trash.results) : trash.results[i] = "pending") =>
                (~trash.reported /\ trash.report = <<>> /\ sent = <<>>)
        /\ ToastAfterErrors(trash.report)
        /\ ToastAfterErrors(sent)

\* A batch of two entries, one that failed and one that was trashed, has
\* sent its error report and then its toast.
TrashReportedWitness ==
    /\ trash.reported
    /\ Len(trash.report) = 2
    /\ trash.report[1].type = "Error"
    /\ trash.report[2].type = "Toast"
    /\ sent = trash.report
---------------------------------------------------------------------------
(* Properties of the mount dialog *)

\* C36: once Finish has been handled, no mount operation started by an
\* Accept handled before it is still running without its handle aborted,
\* however many times Accept was handled before the Finish.
FinishAbortsEveryMount ==
    mnt_handled.type = "Finish" =>
        \A i \in 1..Len(mounts) :
            mounts[i].pc = "running" => mounts[i].aborted

\* A mount that ended in an error other than FailedHandled while the dialog
\* was shown, on which the user has not acted since, and beside which no
\* mount has succeeded.
EndedInError(i) ==
    /\ mounts[i].pc = "done"
    /\ mounts[i].outcome = "Failed"
    /\ mounts[i].visible_at
    /\ ~mounts[i].user_acted
    /\ \A j \in 1..Len(mounts) :
            mounts[j].outcome \notin {"Ok", "FailedHandled"}

\* C37: an accepted mount whose future has resolved has had one outcome: on
\* Ok, on abort and on FailedHandled it has sent Close and no error; on any
\* other error it has sent one AppMsg::Error and no Close, and the dialog
\* stays visible until the user acts on it or another mount succeeds.
MountEndsInOneOutcome ==
    \A i \in 1..Len(mounts) :
        mounts[i].pc = "done" =>
            /\ mounts[i].outcome \in {"Ok", "Aborted", "FailedHandled"} =>
                    (mounts[i].closes = 1 /\ mounts[i].errors = 0)
            /\ mounts[i].outcome = "Failed" =>
                    (mounts[i].closes = 0 /\ mounts[i].errors = 1)
            /\ EndedInError(i) => mnt_visible
---------------------------------------------------------------------------
(* Properties of the rename popover *)

\* The target of the most recent Rename action.
LastTarget == rename_handled.targets[Len(rename_handled.targets)]

\* C39: at most one activate handler is connected to the rename entry of a
\* list item view, and a confirmation runs one handler, that of the most
\* recent Rename action: it renames the file that action targeted, once.
OneRenameHandler ==
    /\ Cardinality(handlers) <= 1
    /\ \A h \in handlers : h.id = previous_handler_id /\ h.file = LastTarget
    /\ rename_handled.type = "activate" =>
        /\ Len(rename_handled.runs) = 1
        /\ rename_handled.runs[1].file = LastTarget

\* Rename was chosen for bob and then for notes, and the confirmation has
\* renamed notes to carol and left bob alone.
OneRenameWitness ==
    /\ rename_handled.type = "activate"
    /\ rename_handled.targets = <<"bob", "notes">>
    /\ rename_handled.runs =
            <<[file |-> "notes", new_name |-> "carol", ok |-> TRUE]>>
    /\ names = {"alice", "bob", "carol"}

====
